---- MODULE Spec2Model ----
(***************************************************************************)
(* The event-distribution core of the agentic ICU simulation: the          *)
(* in-memory message bus (MockMessageBus), the three clinical agents       *)
(* built on BaseAgent, and the part of WorkflowCoordinator that wires      *)
(* them to the bus.                                                        *)
(*                                                                         *)
(* Scheduling is asyncio's: a task runs without interruption until it      *)
(* awaits something that really suspends.  The only suspension point       *)
(* below a publish is the Decision Engine call (asyncio.sleep inside       *)
(* MockLLMInterface.generate_response), so one action of the model is      *)
(* one run of a task from a resumption to its next suspension or end.      *)
(*                                                                         *)
(* Wall-clock reads (_timestamp, response time values, last_update) and    *)
(* free text (recommendation, reasoning) carry no control flow and are     *)
(* left out of the records; numbers with one decimal (temperature) are     *)
(* kept exact by counting every vital value in tenths.                     *)
(***************************************************************************)
EXTENDS Integers, Sequences, FiniteSets, TLC

\* ------------------------------------------------------------------ bounds
\* deque(maxlen=1000) in the source; the model runs the same code with a
\* short buffer so that eviction happens within the explored runs.
MaxLen == 2
\* how many calls the environment makes on the whole system in one run
MaxCalls == 2
\* how many calls the environment makes on the bus alone in one run
MaxPublish == 4
\* how many calls a caller that awaits each call makes on the agents in one run
MaxEvents == 2
\* how many calls and device emissions one run of the simulation explores
MaxSim == 3
\* the same, for the runs checked for progress
MaxSimFair == 2
\* how many calls follow the initialize() calls of one bring-up
MaxBringUp == 2
\* how many events a caller publishes in a run over the input values
MaxInputs == 2
\* how many calls and device emissions a run with failing tasks explores
MaxFail == 2
\* how many emissions the loops of one device make when it is driven directly
MaxDevice == 3
\* how many calls, emissions and later status reports a monitored run explores
MaxMon == 2

\* ------------------------------------------------------------- universes
\* the slots of concurrently running callers of publish and make_decision
Tasks == 1..4
\* the calls of WorkflowCoordinator.initialize(), numbered: each call makes
\* new agent objects and loads newly generated patients
Gens == {1, 2}
AgentKinds == {"physician", "nurse", "pharmacist"}
AgentObjs == [kind : AgentKinds, gen : Gens]
Coordinator == [kind |-> "coordinator", gen |-> 0]
\* patient ids: 0 is a subject no agent is assigned; call g of initialize()
\* loads patient g (generate_multiple_patients, one patient per call here)
AssignedPatient(g) == g
MonitoredTopics == <<"vitals", "labs", "medications", "alerts", "agent_decisions">>
Topics == {"vitals", "labs", "medications", "alerts", "other"}
None == [none |-> TRUE]
NotAMapping == [notamapping |-> TRUE]

Min(a, b) == IF a < b THEN a ELSE b
Max(a, b) == IF a > b THEN a ELSE b

VARIABLES
    topics,           \* MockMessageBus.topics: topic -> deque (keys made on first access)
    subscribers,      \* MockMessageBus.subscribers: topic -> list of callbacks
    state,            \* MockMessageBus.state: key -> {value}
    agent,            \* the agent objects' fields
    agents,           \* WorkflowCoordinator.agents: kind -> generation of the registered object (0: none)
    patients,         \* WorkflowCoordinator.patients (its keys)
    total_decisions,  \* WorkflowCoordinator.total_decisions
    total_messages,   \* WorkflowCoordinator.total_messages
    task,             \* each task: idle, or the frame it is suspended in
    initCount,        \* number of initialize() calls so far
    ops,              \* number of top-level calls made so far
    history,          \* ghost: per topic, every message ever appended, in append order
    delivered,        \* ghost: every callback invocation by publish, in invocation order
    returned,         \* ghost: every publish call that has returned, with its result
    raised,           \* ghost: the callback invocations that raised an exception
    made,             \* ghost: per agent object, make_decision calls that succeeded / failed,
                      \*        and what the latest one returned
    subscribedAt,     \* ghost: per topic, for each subscription the number of messages appended before it
    written,          \* ghost: per key, the value of the latest set_state
    lastRead,         \* the latest get_messages call, what it returned, and (ghost) what had been appended
    budget,           \* how many calls the environment makes in this run
    is_running,       \* WorkflowCoordinator.is_running
    tasks,            \* WorkflowCoordinator.tasks: the asyncio tasks it created, in order
    proc,             \* each asyncio task of a run: where it is, and whether cancel() is pending
    starter,          \* each start_simulation call that passed its guard: where it is
    stopper,          \* the stop_simulation call made from outside, if one is awaiting the tasks
    devices,          \* icu_unit.devices: per patient, the device's is_running
    final_reports,    \* how many times final_report.json has been written
    reported,         \* per run, how many status reports the loop of its monitoring task has
                      \*   written so far (a count local to the task: 0 when it is not in its loop)
    stopped,          \* ghost: every stop_simulation call that has returned, with what it did
    startCalls,       \* ghost: number of start_simulation calls made
    initLog,          \* ghost: every initialize() call, with the agent whose initialize() raised, if one did
    assignLog,        \* ghost: per agent object, the ids assign_patient was called with, in order
    failures          \* ghost: the steps of a run's tasks in which an exception was raised

vars == <<topics, subscribers, state, agent, agents, patients, total_decisions,
          total_messages, task, initCount, ops, history, delivered, returned,
          raised, made, subscribedAt, written, lastRead, budget, is_running,
          tasks, proc, starter, stopper, devices, final_reports, reported, stopped,
          startCalls, initLog, assignLog, failures>>

\* the logs kept for the claims about bring-up and about failing tasks
ghosts == <<initLog, assignLog, failures>>

\* the coordinator's run state and the simulated unit
simvars == <<is_running, tasks, proc, starter, stopper, devices, final_reports,
             reported,
             stopped, startCalls>>

\* Everything a publish or a callback can touch, passed through the
\* operators below as one record.
World ==
    [topics |-> topics, subscribers |-> subscribers, agent |-> agent,
     total_decisions |-> total_decisions, total_messages |-> total_messages,
     history |-> history, delivered |-> delivered, returned |-> returned,
     raised |-> raised, made |-> made,
     is_running |-> is_running, tasks |-> tasks, proc |-> proc, starter |-> starter,
     stopper |-> stopper, devices |-> devices, final_reports |-> final_reports,
     reported |-> reported,
     stopped |-> stopped, startCalls |-> startCalls]

Range(s) == {s[i] : i \in 1..Len(s)}

\* defaultdict.__getitem__: a missing key is created with the default
Touch(f, k, d) == IF k \in DOMAIN f THEN f ELSE (k :> d) @@ f

\* ------------------------------------------------------------ agents
NewAgent ==
    [is_active |-> FALSE, patients_assigned |-> <<>>, decision_count |-> 0,
     response_times |-> <<>>, confidence_scores |-> <<>>,
     last_decision_time |-> FALSE]

agent_id(self) ==
    CASE self.kind = "physician" -> "PHYSICIAN_001"
      [] self.kind = "nurse" -> "NURSE_001"
      [] OTHER -> "PHARMACIST_001"

\* MockLLMInterface.generate_response: the confidence is picked by the
\* keywords found in the lower-cased prompt (hundredths)
generate_response(keywords) ==
    IF "vital signs" \in keywords THEN [confidence |-> 85]
    ELSE IF "medication" \in keywords THEN [confidence |-> 78]
    ELSE IF "lab results" \in keywords THEN [confidence |-> 82]
    ELSE [confidence |-> 75]

\* the keywords a prompt built from f"...{data}" contains: the dict's keys
\* are printed with it, and so is its text
Keywords(data) ==
    {k \in {"vital signs", "medication", "lab results"} :
        k \in DOMAIN data \/ ("text" \in DOMAIN data /\ data.text = k)}

\* what a callback did: returned, raised, or is suspended in `phase`
Done(w) == [w |-> w, out |-> "done", phase |-> "none", ctx |-> None]
Raised(w) == [w |-> w, out |-> "raised", phase |-> "none", ctx |-> None]
Suspended(w, phase, ctx) == [w |-> w, out |-> "suspended", phase |-> phase, ctx |-> ctx]

\* (faulty variant of make_decision: the counter is raised when the call starts)
make_decision_counts_first(w, self, patient_id, context) ==
    Suspended([w EXCEPT !.agent[self].decision_count = @ + 1], "process", context)

\* BaseAgent.make_decision up to its first suspension: process_patient_data
\* builds its prompt and awaits the Decision Engine
make_decision(w, self, patient_id, context) == Suspended(w, "process", context)

\* PhysicianAgent._make_urgent_decision up to its await of the Decision Engine
make_urgent_decision(w, self, patient_id, context) ==
    Suspended(w, "urgent", [patient_id |-> patient_id] @@ context)

\* thresholds of PhysicianAgent._handle_vitals, in tenths
critical_thresholds ==
    [heart_rate |-> [low |-> 500, high |-> 1200],
     systolic_bp |-> [low |-> 900, high |-> 1800],
     spo2 |-> [low |-> 920, high |-> 1000]]

\* (faulty variant of IsAssigned: every subject that is named counts as assigned)
IsAssigned_any(w, self, message) == "patient_id" \in DOMAIN message

IsAssigned(w, self, message) ==
    /\ "patient_id" \in DOMAIN message
    /\ message.patient_id \in Range(w.agent[self].patients_assigned)

\* (faulty variant of handle_vitals: a value equal to a bound counts as critical)
handle_vitals_inclusive(w, self, message) ==
    IF ~IsAssigned(w, self, message) THEN Done(w)
    ELSE IF ~("parameter" \in DOMAIN message
              /\ message.parameter \in DOMAIN critical_thresholds) THEN Done(w)
    ELSE IF "value" \notin DOMAIN message THEN Raised(w)
    ELSE LET thresholds == critical_thresholds[message.parameter]
         IN IF message.value <= thresholds.low \/ message.value >= thresholds.high
            THEN make_urgent_decision(w, self, message.patient_id,
                     [trigger |-> "critical_vital", parameter |-> message.parameter,
                      value |-> message.value])
            ELSE Done(w)

\* (faulty variant of handle_vitals: a missing value is read as 0)
handle_vitals_default(w, self, message) ==
    IF ~IsAssigned(w, self, message) THEN Done(w)
    ELSE IF ~("parameter" \in DOMAIN message
              /\ message.parameter \in DOMAIN critical_thresholds) THEN Done(w)
    ELSE LET thresholds == critical_thresholds[message.parameter]
             value == IF "value" \in DOMAIN message THEN message.value ELSE 0
         IN IF value < thresholds.low \/ value > thresholds.high
            THEN make_urgent_decision(w, self, message.patient_id,
                     [trigger |-> "critical_vital", parameter |-> message.parameter,
                      value |-> value])
            ELSE Done(w)

\* PhysicianAgent._handle_vitals
handle_vitals(w, self, message) ==
    IF ~IsAssigned(w, self, message) THEN Done(w)
    ELSE IF ~("parameter" \in DOMAIN message
              /\ message.parameter \in DOMAIN critical_thresholds) THEN Done(w)
    ELSE IF "value" \notin DOMAIN message THEN Raised(w)   \* None < 50: TypeError
    ELSE LET thresholds == critical_thresholds[message.parameter]
         IN IF message.value < thresholds.low \/ message.value > thresholds.high
            THEN make_urgent_decision(w, self, message.patient_id,
                     [trigger |-> "critical_vital", parameter |-> message.parameter,
                      value |-> message.value])
            ELSE Done(w)

handle_alerts(w, self, message) ==
    IF IsAssigned(w, self, message)
       /\ "severity" \in DOMAIN message /\ message.severity \in {"high", "critical"}
    THEN make_urgent_decision(w, self, message.patient_id, [trigger |-> "clinical_alert"])
    ELSE Done(w)

\* NurseAgent._recommend_nursing_intervention
recommend_nursing_intervention(w, self, patient_id) ==
    make_decision(w, self, patient_id,
        [patient_id |-> patient_id, recommendation_type |-> "nursing_intervention",
         intervention |-> "fever_management", confidence_score |-> 90])

handle_vitals_monitoring(w, self, message) ==
    IF ~IsAssigned(w, self, message) THEN Done(w)
    ELSE IF ~("parameter" \in DOMAIN message /\ message.parameter = "temperature")
         THEN Done(w)
    ELSE IF "value" \notin DOMAIN message THEN Raised(w)   \* None > 38.0: TypeError
    ELSE IF message.value > 380
         THEN recommend_nursing_intervention(w, self, message.patient_id)
         ELSE Done(w)

\* PharmacistAgent.drug_interactions (its keys), and str.lower on the names used
drug_interactions == {"warfarin", "digoxin"}
lower(name) ==
    CASE name = "Warfarin" -> "warfarin"
      [] name = "Digoxin" -> "digoxin"
      [] name = "Propofol" -> "propofol"
      [] OTHER -> name

check_drug_interactions(w, self, patient_id, medication) ==
    make_decision(w, self, patient_id,
        [patient_id |-> patient_id, recommendation_type |-> "drug_interaction_alert",
         medication |-> medication.drug_name, confidence_score |-> 95])

handle_medication_review(w, self, message) ==
    IF ~IsAssigned(w, self, message) THEN Done(w)
    ELSE LET drug_name == IF "drug_name" \in DOMAIN message
                          THEN lower(message.drug_name) ELSE ""
         IN IF drug_name \in drug_interactions
            THEN check_drug_interactions(w, self, message.patient_id, message)
            ELSE Done(w)

\* WorkflowCoordinator._monitor_messages / _track_decisions
monitor_messages(w) == Done([w EXCEPT !.total_messages = @ + 1])
track_decisions(w) == Done([w EXCEPT !.total_decisions = @ + 1])

\* the call `callback(topic, enriched_message)` of publish
Invoke(w, cb, message) ==
    CASE cb.fn = "_handle_vitals" -> handle_vitals(w, cb.self, message)
      [] cb.fn = "_handle_alerts" -> handle_alerts(w, cb.self, message)
      [] cb.fn = "_handle_vitals_monitoring" -> handle_vitals_monitoring(w, cb.self, message)
      [] cb.fn = "_handle_medication_review" -> handle_medication_review(w, cb.self, message)
      [] cb.fn = "_monitor_messages" -> monitor_messages(w)
      [] OTHER -> track_decisions(w)

\* ------------------------------------------------------------ the bus
\* (faulty variant of deque_append: a plain list, nothing is evicted)
deque_append_unbounded(q, x) == Append(q, x)

\* deque(maxlen=MaxLen).append: a full deque drops its oldest entry
deque_append(q, x) == IF Len(q) >= MaxLen THEN Append(Tail(q), x) ELSE Append(q, x)

\* the enriched message of publish; _id is f"{topic}_{len(self.topics[topic])}",
\* kept as the pair it is printed from.  seq is a ghost: the message's
\* ordinal among the appends to its topic.
enrich(w, topic, message) ==
    ("_topic" :> topic) @@ ("_id" :> <<topic, Len(w.topics[topic])>>)
        @@ ("seq" :> Len(w.history[topic]) + 1) @@ message

\* a publish that is not suspended: `at` = 0 when it has returned, else the
\* index of the subscriber whose callback is suspended
Returned(w, ret) == [w |-> w, at |-> 0, ret |-> ret, self |-> Coordinator,
                     phase |-> "none", ctx |-> None, message |-> None]

\* the loop `for callback in self.subscribers[topic]` from index i on; the
\* list is read at every step, so an entry appended meanwhile is reached too
RECURSIVE notify(_, _, _, _)

\* (faulty variant of notify: no try/except around the callback, so an exception
\* ends the loop and publish's outer handler returns False)
notify_abort(w, topic, message, i) ==
    IF i > Len(w.subscribers[topic])
    THEN Returned([w EXCEPT !.returned =
                      Append(@, [topic |-> topic, seq |-> message.seq, ret |-> TRUE,
                                 subs |-> Len(w.subscribers[topic])])], TRUE)
    ELSE LET cb == w.subscribers[topic][i]
             w1 == [w EXCEPT !.delivered =
                        Append(@, [topic |-> topic, idx |-> i, seq |-> message.seq])]
             r == Invoke(w1, cb, message)
         IN CASE r.out = "suspended" ->
                   [w |-> r.w, at |-> i, ret |-> TRUE, self |-> cb.self,
                    phase |-> r.phase, ctx |-> r.ctx, message |-> message]
              [] r.out = "raised" ->
                   Returned([r.w EXCEPT
                                !.raised = @ \cup {[topic |-> topic, idx |-> i, seq |-> message.seq]},
                                !.returned = Append(@, [topic |-> topic, seq |-> message.seq,
                                                        ret |-> FALSE,
                                                        subs |-> Len(w.subscribers[topic])])],
                            FALSE)
              [] OTHER -> notify(r.w, topic, message, i + 1)

notify(w, topic, message, i) ==
    IF i > Len(w.subscribers[topic])
    THEN Returned([w EXCEPT !.returned =
                      Append(@, [topic |-> topic, seq |-> message.seq, ret |-> TRUE,
                                 subs |-> Len(w.subscribers[topic])])], TRUE)
    ELSE LET cb == w.subscribers[topic][i]
             w1 == [w EXCEPT !.delivered =
                        Append(@, [topic |-> topic, idx |-> i, seq |-> message.seq])]
             r == Invoke(w1, cb, message)
         IN CASE r.out = "suspended" ->
                   [w |-> r.w, at |-> i, ret |-> TRUE, self |-> cb.self,
                    phase |-> r.phase, ctx |-> r.ctx, message |-> message]
              [] r.out = "raised" ->     \* except Exception: print, next callback
                   notify([r.w EXCEPT !.raised =
                              @ \cup {[topic |-> topic, idx |-> i, seq |-> message.seq]}],
                          topic, message, i + 1)
              [] OTHER -> notify(r.w, topic, message, i + 1)

\* MockMessageBus.publish, from the call to its first suspension or return
publish(w, topic, message) ==
    IF message = NotAMapping          \* {**message, ...} raises: return False
    THEN Returned([w EXCEPT !.returned =
                      Append(@, [topic |-> topic, seq |-> 0, ret |-> FALSE, subs |-> 0])],
                  FALSE)
    ELSE LET w1 == [w EXCEPT !.topics = Touch(@, topic, <<>>),
                             !.history = Touch(@, topic, <<>>)]
             enriched_message == enrich(w1, topic, message)
             w2 == [w1 EXCEPT !.topics[topic] = deque_append(@, enriched_message),
                              !.history[topic] = Append(@, enriched_message),
                              !.subscribers = Touch(@, topic, <<>>)]
         IN notify(w2, topic, enriched_message, 1)

\* MockMessageBus.subscribe
subscribe(w, topic, callback) ==
    [w EXCEPT !.subscribers = [Touch(@, topic, <<>>) EXCEPT ![topic] = Append(@, callback)]]

\* MockMessageBus.get_messages: messages[-count:] if messages else []
PySuffix(messages, count) ==
    LET n == Len(messages)
        start == IF count > 0 THEN Max(n - count, 0) ELSE Min(0 - count, n)
    IN SubSeq(messages, start + 1, n)
get_messages(tps, topic, count) ==
    LET messages == Touch(tps, topic, <<>>)[topic]
    IN IF messages # <<>> THEN PySuffix(messages, count) ELSE <<>>

\* (faulty variant of set_state: setdefault, the first value of a key is kept)
set_state_keep_first(st, key, value) == st @@ (key :> [value |-> value])

\* MockMessageBus.set_state / get_state
set_state(st, key, value) == (key :> [value |-> value]) @@ st
get_state(st, key) == IF key \in DOMAIN st THEN st[key].value ELSE None

\* MockMessageBus.get_topic_stats
get_topic_stats(tps) == [t \in DOMAIN tps |-> Len(tps[t])]

\* ------------------------------------------- make_decision, resumed
\* process_patient_data after the Decision Engine answered: the decision
\* dict of the agent's class
process_patient_data(self, patient_id, llm_response) ==
    CASE self.kind = "physician" ->
           [patient_id |-> patient_id, recommendation_type |-> "clinical_assessment",
            confidence_score |-> llm_response.confidence, urgency |-> "low"]
      [] self.kind = "nurse" ->
           [patient_id |-> patient_id, recommendation_type |-> "nursing_care_plan",
            confidence_score |-> llm_response.confidence]
      [] OTHER ->
           [patient_id |-> patient_id, recommendation_type |-> "pharmaceutical_care",
            confidence_score |-> llm_response.confidence]

\* (faulty variant of make_decision_resumed: response_times is assigned, not appended to)
make_decision_resumed_one_time(w, self, patient_id, context) ==
    LET llm_response == generate_response(Keywords(context))
        w1 == [w EXCEPT !.agent[self].confidence_scores = Append(@, llm_response.confidence)]
        decision == [agent_id |-> agent_id(self), agent_type |-> self.kind,
                     decision_id |-> Len(Touch(w.history, "agent_decisions", <<>>)["agent_decisions"]) + 1]
                    @@ process_patient_data(self, patient_id, llm_response)
        w2 == [w1 EXCEPT !.agent[self].response_times = <<"dt">>,
                         !.agent[self].decision_count = @ + 1,
                         !.agent[self].last_decision_time = TRUE]
        r == publish(w2, "agent_decisions", decision)
    IN [r.w EXCEPT !.made[self].ok = @ + 1, !.made[self].last = decision]

\* the rest of make_decision once process_patient_data's await has returned:
\* confidence_scores.append, decision.update, the metrics, the publish
make_decision_resumed(w, self, patient_id, context) ==
    LET llm_response == generate_response(Keywords(context))
        w1 == [w EXCEPT !.agent[self].confidence_scores = Append(@, llm_response.confidence)]
        decision == [agent_id |-> agent_id(self), agent_type |-> self.kind,
                     decision_id |-> Len(Touch(w.history, "agent_decisions", <<>>)["agent_decisions"]) + 1]
                    @@ process_patient_data(self, patient_id, llm_response)
        w2 == [w1 EXCEPT !.agent[self].response_times = Append(@, "dt"),
                         !.agent[self].decision_count = @ + 1,
                         !.agent[self].last_decision_time = TRUE]
        r == publish(w2, "agent_decisions", decision)
    IN [r.w EXCEPT !.made[self].ok = @ + 1, !.made[self].last = decision]

\* the dict make_decision returns from its except branch
error_result(self, patient_id) ==
    [error |-> "Exception", agent_id |-> agent_id(self), patient_id |-> patient_id]

\* (faulty variant of make_decision_failed: the metrics are updated in a finally)
make_decision_failed_counts(w, self, patient_id) ==
    [w EXCEPT !.made[self].failed = @ + 1, !.agent[self].decision_count = @ + 1,
              !.agent[self].confidence_scores = Append(@, 0),
              !.made[self].last = error_result(self, patient_id)]

\* (faulty variant of make_decision_failed: the error dict is published as a decision)
make_decision_failed_publishes(w, self, patient_id) ==
    [publish(w, "agent_decisions", error_result(self, patient_id)).w
        EXCEPT !.made[self].failed = @ + 1,
               !.made[self].last = error_result(self, patient_id)]

\* the except branch of make_decision: the error dict is returned
make_decision_failed(w, self, patient_id) ==
    [w EXCEPT !.made[self].failed = @ + 1,
              !.made[self].last = error_result(self, patient_id)]

\* (faulty variant of resume_publish: the loop starts over at the callback it awaited)
resume_publish_again(w, f) == notify(w, f.topic, f.message, f.at)

\* publish's loop goes on with the next subscriber once the callback it
\* awaited (frame f) has ended
resume_publish(w, f) == notify(w, f.topic, f.message, f.at + 1)

\* a suspended callback continues when its await of the Decision Engine
\* ends, with an answer (ok) or with an exception
resume_callback(w, f, ok) ==
    IF f.phase = "urgent"
    THEN IF ok
         THEN LET \* the prompt holds the trigger's name and none of the keywords
                  llm_response == generate_response({})
              IN make_decision(w, f.self, f.ctx.patient_id,
                     [patient_id |-> f.ctx.patient_id,
                      recommendation_type |-> "urgent_clinical_decision",
                      trigger |-> f.ctx.trigger,
                      confidence_score |-> llm_response.confidence,
                      urgency |-> "high"])
         ELSE Raised(w)       \* not inside make_decision's try: propagates to publish
    ELSE IF ok
         THEN Done(make_decision_resumed(w, f.self, f.patient_id, f.ctx))
         ELSE Done(make_decision_failed(w, f.self, f.patient_id))

\* ------------------------------------------------------------ tasks
Idle == [kind |-> "idle"]
Frame(kind, topic, message, r, patient_id) ==
    [kind |-> kind, topic |-> topic, message |-> message, at |-> r.at, self |-> r.self,
     phase |-> r.phase, ctx |-> r.ctx,
     patient_id |-> IF "patient_id" \in DOMAIN r.ctx THEN r.ctx.patient_id ELSE patient_id]

SetWorld(w) ==
    /\ topics' = w.topics
    /\ subscribers' = w.subscribers
    /\ agent' = w.agent
    /\ total_decisions' = w.total_decisions
    /\ total_messages' = w.total_messages
    /\ history' = w.history
    /\ delivered' = w.delivered
    /\ returned' = w.returned
    /\ raised' = w.raised
    /\ made' = w.made
    /\ is_running' = w.is_running
    /\ tasks' = w.tasks
    /\ proc' = w.proc
    /\ starter' = w.starter
    /\ stopper' = w.stopper
    /\ devices' = w.devices
    /\ final_reports' = w.final_reports
    /\ reported' = w.reported
    /\ stopped' = w.stopped
    /\ startCalls' = w.startCalls

\* what the environment publishes
Bodies(topic) ==
    CASE topic = "vitals" ->
           {[patient_id |-> 1, parameter |-> "heart_rate", value |-> 400],
            [patient_id |-> 1, parameter |-> "heart_rate", value |-> 800],
            [patient_id |-> 1, parameter |-> "temperature", value |-> 385],
            [patient_id |-> 1, parameter |-> "heart_rate"],
            [patient_id |-> 0, parameter |-> "heart_rate", value |-> 400]}
      [] topic = "alerts" ->
           {[patient_id |-> 1, severity |-> "high"], [patient_id |-> 1, severity |-> "low"]}
      [] topic = "medications" ->
           {[patient_id |-> 1, drug_name |-> "Warfarin"],
            [patient_id |-> 1, drug_name |-> "Propofol"]}
      [] topic = "labs" -> {[patient_id |-> 1, test |-> "glucose"], NotAMapping}
      [] OTHER -> {[note |-> "a"], [note |-> "b"]}

\* tasks are interchangeable: a new call runs in the first idle one
FirstIdle(t) == task[t] = [kind |-> "idle"] /\ \A u \in Tasks : task[u] = [kind |-> "idle"] => t <= u

\* a task calls publish(topic, message)
Publish(t, topic, message) ==
    /\ ops < budget
    /\ FirstIdle(t)
    /\ LET r == publish(World, topic, message)
       IN /\ SetWorld(r.w)
          /\ task' = [task EXCEPT ![t] = IF r.at = 0 THEN Idle
                                         ELSE Frame("publish", topic, r.message, r, 0)]
    /\ ops' = ops + 1
    /\ UNCHANGED <<state, agents, patients, initCount, subscribedAt, written, lastRead, budget,
                   ghosts>>

\* a task calls agent.make_decision(patient_id, context) itself
Contexts == {[text |-> "vital signs"], [text |-> "routine"]}
CallMakeDecision(t, self, patient_id, context) ==
    /\ ops < budget
    /\ FirstIdle(t)
    /\ agents[self.kind] = self.gen
    /\ LET r == make_decision(World, self, patient_id, context)
       IN task' = [task EXCEPT ![t] =
                      [kind |-> "call", topic |-> "none", message |-> None, at |-> 0,
                       self |-> self, phase |-> r.phase, ctx |-> r.ctx,
                       patient_id |-> patient_id]]
    /\ ops' = ops + 1
    /\ UNCHANGED <<topics, subscribers, state, agent, agents, patients, total_decisions,
                   total_messages, initCount, history, delivered, returned, raised,
                   made, subscribedAt, written, lastRead, budget, simvars, ghosts>>

\* ------------------------------------------------ asyncio tasks of a run
\* the runs of the simulation (start_simulation calls that passed the guard)
Runs == {1, 2}
\* positions in icu_unit.devices: every initialize() call adds one device
DevIds == 1..Cardinality(Gens)
\* the unit task and the monitoring task of run r, and the task that the
\* unit task creates for its d-th device
Proc(fn, r) == [fn |-> fn, run |-> r, dev |-> 0]
Dev(d, r) == [fn |-> "dev", run |-> r, dev |-> d]
ProcIds ==
    {Proc(fn, r) : fn \in {"unit", "mon"}, r \in Runs} \cup {Dev(d, r) : d \in DevIds, r \in Runs}
NoStart == [pc |-> "none"]
NoCall == [pc |-> "none"]
\* the task slot from which the task of device d of run r publishes
Slot(d, r) == Cardinality(DevIds) * (r - 1) + d
\* cancel() on a task that is waiting cancels what it waits for, so it can
\* only wake cancelled
CancelPending(t) ==
    \E r \in Runs, d \in DevIds :
        Slot(d, r) = t /\ proc[Dev(d, r)].pc = "wait" /\ proc[Dev(d, r)].cancel

\* the Decision Engine call a task is suspended in ends; the task runs on to
\* its next suspension, or to the end of its publish or make_decision call
Resume(t, ok) ==
    /\ task[t] # Idle
    /\ ~CancelPending(t)
    /\ LET f == task[t]
           c == resume_callback(World, f, ok)
       IN IF c.out = "suspended"
          THEN /\ SetWorld(c.w)
               /\ task' = [task EXCEPT ![t] = [f EXCEPT !.phase = c.phase, !.ctx = c.ctx]]
          ELSE IF f.kind = "call"
          THEN /\ SetWorld(c.w)
               /\ task' = [task EXCEPT ![t] = Idle]
          ELSE LET w1 == IF c.out = "raised"
                         THEN [c.w EXCEPT !.raised = @ \cup
                                  {[topic |-> f.topic, idx |-> f.at, seq |-> f.message.seq]}]
                         ELSE c.w
                   r == resume_publish(w1, f)
               IN /\ SetWorld(r.w)
                  /\ task' = [task EXCEPT ![t] = IF r.at = 0 THEN Idle
                                                 ELSE Frame("publish", f.topic, f.message, r, 0)]
    /\ UNCHANGED <<state, agents, patients, initCount, ops, subscribedAt, written, lastRead,
                   budget, ghosts>>

\* task.cancel() on a suspended task: CancelledError is raised at its await
\* and is no Exception, so neither make_decision nor publish catches it
Cancel(t) ==
    /\ task[t] # Idle
    /\ task' = [task EXCEPT ![t] = Idle]
    /\ UNCHANGED <<topics, subscribers, state, agent, agents, patients, total_decisions,
                   total_messages, initCount, ops, history, delivered, returned, raised,
                   made, subscribedAt, written, lastRead, budget, simvars, ghosts>>

\* -------------------------------------------------- the coordinator
Callback(self, fn) == [self |-> self, fn |-> fn]
Obj(kind, gen) == [kind |-> kind, gen |-> gen]

\* the subscribe calls of one initialize(), in the order they are made:
\* each agent's _setup_subscriptions, then _track_decisions, then _setup_monitoring
Subscriptions(gen) ==
    << <<"vitals", Callback(Obj("physician", gen), "_handle_vitals")>>,
       <<"alerts", Callback(Obj("physician", gen), "_handle_alerts")>>,
       <<"vitals", Callback(Obj("nurse", gen), "_handle_vitals_monitoring")>>,
       <<"medications", Callback(Obj("pharmacist", gen), "_handle_medication_review")>>,
       <<"agent_decisions", Callback(Coordinator, "_track_decisions")>> >>
    \o [i \in 1..Len(MonitoredTopics) |->
           <<MonitoredTopics[i], Callback(Coordinator, "_monitor_messages")>>]

RECURSIVE SubscribeAll(_, _)
SubscribeAll(w, list) ==
    IF list = <<>> THEN w
    ELSE SubscribeAll(subscribe(w, Head(list)[1], Head(list)[2]), Tail(list))

\* (faulty variant of assign_patient: no test for an id that is already there)
assign_patient_always(assigned, patient_id) == Append(assigned, patient_id)

\* BaseAgent.assign_patient, on the agent's patients_assigned
assign_patient(assigned, patient_id) ==
    IF patient_id \notin Range(assigned) THEN Append(assigned, patient_id) ELSE assigned

\* (faulty variant of assign_patients: only the first patient of the list is assigned)
assign_patients_first(assigned, list) ==
    IF list = <<>> THEN assigned ELSE assign_patient(assigned, Head(list))

\* agent.assign_patient(patient_id) for every patient of the list, in order
RECURSIVE assign_patients(_, _)
assign_patients(assigned, list) ==
    IF list = <<>> THEN assigned
    ELSE assign_patients(assign_patient(assigned, Head(list)), Tail(list))

PatientKey(patient_id) == <<"patient", patient_id>>

\* MockICUUnit.add_patient: a monitor device is appended for a patient the
\* unit does not have yet (unit.patients holds the devices' patient ids)
add_patient(devs, patient_id) ==
    IF \E d \in 1..Len(devs) : devs[d].patient_id = patient_id THEN devs
    ELSE Append(devs, [patient_id |-> patient_id, is_running |-> FALSE])

\* WorkflowCoordinator.initialize(): it never suspends, so it is one step
Initialize ==
    /\ initCount + 1 \in Gens
    /\ LET gen == initCount + 1
           patient_id == AssignedPatient(gen)
           patient_list == IF patient_id \in Range(patients) THEN patients
                           ELSE Append(patients, patient_id)
           value == [status |-> "admitted"]
           w == SubscribeAll(World, Subscriptions(gen))
       IN /\ patients' = patient_list
          /\ state' = set_state(state, PatientKey(patient_id), value)
          /\ written' = (PatientKey(patient_id) :> value) @@ written
          /\ agents' = [k \in AgentKinds |-> gen]
          /\ agent' = [o \in AgentObjs |->
                          IF o.gen = gen
                          THEN [agent[o] EXCEPT !.is_active = TRUE,
                                    !.patients_assigned = assign_patients(@, patient_list)]
                          ELSE agent[o]]
          /\ subscribers' = w.subscribers
          /\ subscribedAt' =
                [tp \in DOMAIN w.subscribers |->
                    LET old == IF tp \in DOMAIN subscribedAt THEN subscribedAt[tp] ELSE <<>>
                        n == IF tp \in DOMAIN history THEN Len(history[tp]) ELSE 0
                    IN old \o [i \in 1..(Len(w.subscribers[tp]) - Len(old)) |-> n]]
          /\ devices' = add_patient(devices, patient_id)
          /\ initLog' = Append(initLog, [gen |-> gen, failed |-> None])
          /\ assignLog' = [o \in AgentObjs |->
                              IF o.gen = gen THEN assignLog[o] \o patient_list
                              ELSE assignLog[o]]
    /\ initCount' = initCount + 1
    /\ UNCHANGED <<topics, total_decisions, total_messages, task, ops, history,
                   delivered, returned, raised, made, lastRead, budget, is_running,
                   tasks, proc, starter, stopper, final_reports, reported, stopped, startCalls,
                   failures>>

\* the first initialize() call (the API's startup, run_demo_simulation)
FirstInitialize == initCount = 0 /\ Initialize

\* initialize() when the k-th subscribe call of the agents' bring-up raises:
\* `await agent.initialize()` raises out of _initialize_agents and out of
\* initialize().  The patients are loaded by then; the agents created before
\* the failing one are registered; no patient is assigned, and neither
\* _track_decisions nor _monitor_messages is subscribed.
InitializeFails(k) ==
    /\ initCount + 1 \in Gens
    /\ LET gen == initCount + 1
           patient_id == AssignedPatient(gen)
           patient_list == IF patient_id \in Range(patients) THEN patients
                           ELSE Append(patients, patient_id)
           value == [status |-> "admitted"]
           list == Subscriptions(gen)
           failing == list[k][2].self
           \* the agents whose initialize() has returned
           created == {kind \in AgentKinds :
                          \A i \in 1..Len(list) :
                              (list[i][2].self = Obj(kind, gen)) => i < k}
           w == SubscribeAll(World, SubSeq(list, 1, k - 1))
       IN /\ patients' = patient_list
          /\ state' = set_state(state, PatientKey(patient_id), value)
          /\ written' = (PatientKey(patient_id) :> value) @@ written
          /\ agents' = [kind \in AgentKinds |-> IF kind \in created THEN gen ELSE agents[kind]]
          /\ agent' = [o \in AgentObjs |->
                          IF o.gen = gen /\ (o.kind \in created \/ o = failing)
                          THEN [agent[o] EXCEPT !.is_active = TRUE]    \* base_agent.py line 67
                          ELSE agent[o]]
          /\ subscribers' = w.subscribers
          /\ subscribedAt' =
                [tp \in DOMAIN w.subscribers |->
                    LET old == IF tp \in DOMAIN subscribedAt THEN subscribedAt[tp] ELSE <<>>
                        n == IF tp \in DOMAIN history THEN Len(history[tp]) ELSE 0
                    IN old \o [i \in 1..(Len(w.subscribers[tp]) - Len(old)) |-> n]]
          /\ devices' = add_patient(devices, patient_id)
          /\ initLog' = Append(initLog, [gen |-> gen, failed |-> failing])
    /\ initCount' = initCount + 1
    /\ UNCHANGED <<topics, total_decisions, total_messages, task, ops, history,
                   delivered, returned, raised, made, lastRead, budget, is_running,
                   tasks, proc, starter, stopper, final_reports, reported, stopped, startCalls,
                   assignLog, failures>>

\* a caller assigns a patient to a registered agent
PatientIds == {0, 1, 2}
AssignPatient(self, patient_id) ==
    /\ ops < budget
    /\ agents[self.kind] = self.gen
    /\ agent' = [agent EXCEPT ![self].patients_assigned = assign_patient(@, patient_id)]
    /\ assignLog' = [assignLog EXCEPT ![self] = Append(@, patient_id)]
    /\ ops' = ops + 1
    /\ UNCHANGED <<topics, subscribers, state, agents, patients, total_decisions,
                   total_messages, task, initCount, history, delivered, returned,
                   raised, made, subscribedAt, written, lastRead, budget, simvars,
                   initLog, failures>>

\* BaseAgent.shutdown
shutdown(a) == [a EXCEPT !.is_active = FALSE]

\* a caller that awaits each of its calls shuts an agent down between them
Shutdown(self) ==
    /\ ops < budget
    /\ agents[self.kind] = self.gen
    /\ \A t \in Tasks : task[t] = Idle
    /\ agent' = [agent EXCEPT ![self] = shutdown(@)]
    /\ ops' = ops + 1
    /\ UNCHANGED <<topics, subscribers, state, agents, patients, total_decisions,
                   total_messages, task, initCount, history, delivered, returned,
                   raised, made, subscribedAt, written, lastRead, budget, simvars, ghosts>>

\* ------------------------------------------------ start and stop
\* what is left unchanged by the steps of the coordinator and of its tasks
others == <<state, agents, patients, initCount, subscribedAt, written, lastRead, budget,
            ghosts>>

\* Task.cancel(): nothing for a finished task; a task waiting in gather()
\* passes the request on to the children that have not finished
cancel(w, id) ==
    IF w.proc[id].pc \in {"none", "done"} THEN w
    ELSE IF id.fn = "unit" /\ w.proc[id].pc = "wait"
    THEN [w EXCEPT !.proc =
             [p \in ProcIds |->
                 IF p = id \/ (p.fn = "dev" /\ p.run = id.run
                               /\ w.proc[p].pc \notin {"none", "done"})
                 THEN [w.proc[p] EXCEPT !.cancel = TRUE]
                 ELSE w.proc[p]]]
    ELSE [w EXCEPT !.proc[id].cancel = TRUE]

\* for task in self.tasks: if not task.done(): task.cancel()
RECURSIVE cancel_all(_, _)
cancel_all(w, list) ==
    IF list = <<>> THEN w ELSE cancel_all(cancel(w, Head(list)), Tail(list))

\* MockICUUnit.stop_unit_simulation / MockDevice.stop_simulation
stop_unit_simulation(devs) == [d \in DOMAIN devs |-> [devs[d] EXCEPT !.is_running = FALSE]]

Active(ag) == {o \in AgentObjs : ag[o].is_active}
\* self.agents.values()
Registered == {o \in AgentObjs : agents[o.kind] = o.gen}

\* stop_simulation up to `await asyncio.gather(*self.tasks)`
stop_begin(w) ==
    cancel_all([w EXCEPT !.is_running = FALSE, !.devices = stop_unit_simulation(@)], w.tasks)

\* how a task that is done ended: a task that cancel() reached ends with
\* CancelledError; a device or monitoring task catches every Exception
\* itself, so the others end by returning
Outcome(w, p) == IF w.proc[p].cancel THEN "cancelled" ELSE "returned"

\* (faulty variant of gather_tasks: without return_exceptions, a task's
\* CancelledError is raised at the await)
gather_tasks_raising(w, snap) ==
    IF \E i \in 1..Len(snap) : Outcome(w, snap[i]) = "cancelled" THEN "raised" ELSE "returned"

\* await asyncio.gather(*self.tasks, return_exceptions=True), once every
\* task is done: what the tasks raised is in the result list
gather_tasks(w, snap) == "returned"

\* stop_simulation after the tasks: every registered agent is shut down and
\* the final report is written; the call returns
stop_end(w, call) ==
    LET ag == [o \in AgentObjs |-> IF o \in Registered THEN shutdown(w.agent[o]) ELSE w.agent[o]]
        seen == [by |-> call.by, was_running |-> call.was_running, awaited |-> call.awaited,
                 active_before |-> call.active_before, registered |-> Registered,
                 unfinished |-> {p \in Range(call.snap) : w.proc[p].pc # "done"},
                 failed |-> failures,
                 running_after |-> {d \in DOMAIN w.devices : w.devices[d].is_running}]
    IN IF gather_tasks(w, call.snap) = "raised"
       THEN \* the exception leaves stop_simulation at the await
            [w EXCEPT !.stopped = Append(@,
                [persisted |-> FALSE, shut |-> {}, active_after |-> Active(w.agent)] @@ seen)]
       ELSE [w EXCEPT !.agent = ag,
                      !.final_reports = @ + 1,
                      !.stopped = Append(@,
                          [persisted |-> TRUE, shut |-> Registered,
                           active_after |-> Active(ag)] @@ seen)]

\* WorkflowCoordinator.stop_simulation called by `by` (0: from outside, r: the
\* cleanup of run r): to its await, or to its return when there is no task
stop_simulation(w, by) ==
    LET call == [pc |-> "gather", by |-> by, was_running |-> w.is_running,
                 active_before |-> Active(w.agent), awaited |-> w.tasks # <<>>,
                 snap |-> w.tasks]
        w1 == stop_begin(w)
    IN IF w.tasks = <<>> THEN [w |-> stop_end(w1, call), call |-> NoCall]
       ELSE [w |-> w1, call |-> call]

NextRun(w) == 1 + Cardinality({r \in Runs : w.starter[r].pc # "none"})

\* (faulty variant of start_simulation: no test of is_running)
start_simulation_unguarded(w) ==
    LET r == NextRun(w)
    IN IF r \notin Runs THEN [w EXCEPT !.startCalls = @ + 1]
       ELSE [w EXCEPT !.is_running = TRUE,
                      !.tasks = @ \o <<Proc("unit", r), Proc("mon", r)>>,
                      !.proc[Proc("unit", r)] = [pc |-> "new", cancel |-> FALSE],
                      !.proc[Proc("mon", r)] = [pc |-> "new", cancel |-> FALSE],
                      !.starter[r] = [pc |-> "sleeping"],
                      !.startCalls = @ + 1]

\* WorkflowCoordinator.start_simulation up to `await asyncio.sleep(...)`
start_simulation(w) ==
    IF w.is_running THEN [w EXCEPT !.startCalls = @ + 1]
    ELSE LET r == NextRun(w)
         IN [w EXCEPT !.is_running = TRUE,
                      !.tasks = @ \o <<Proc("unit", r), Proc("mon", r)>>,
                      !.proc[Proc("unit", r)] = [pc |-> "new", cancel |-> FALSE],
                      !.proc[Proc("mon", r)] = [pc |-> "new", cancel |-> FALSE],
                      !.starter[r] = [pc |-> "sleeping"],
                      !.startCalls = @ + 1]

\* (faulty variant of start_cleanup: stop_simulation after the sleep, not in a finally)
start_cleanup_after_sleep(w, r, how) ==
    IF how = "cancelled" THEN [w EXCEPT !.starter[r] = [pc |-> "done", how |-> how]]
    ELSE LET s == stop_simulation(w, r)
         IN IF s.call = NoCall
            THEN [s.w EXCEPT !.starter[r] = [pc |-> "done", how |-> how]]
            ELSE [s.w EXCEPT !.starter[r] = [pc |-> "stopping", how |-> how, call |-> s.call]]

\* the finally of start_simulation: stop_simulation is awaited, however the
\* sleep ended
start_cleanup(w, r, how) ==
    LET s == stop_simulation(w, r)
    IN IF s.call = NoCall
       THEN [s.w EXCEPT !.starter[r] = [pc |-> "done", how |-> how]]
       ELSE [s.w EXCEPT !.starter[r] = [pc |-> "stopping", how |-> how, call |-> s.call]]

\* a call of start_simulation (by the API, or by run_demo_simulation)
StartSimulation ==
    /\ ops < budget
    /\ is_running \/ NextRun(World) \in Runs
    /\ SetWorld(start_simulation(World))
    /\ ops' = ops + 1
    /\ UNCHANGED <<others, task>>

\* the sleep of run r's start_simulation ends after its duration
StartElapsed(r) ==
    /\ starter[r].pc = "sleeping"
    /\ SetWorld(start_cleanup(World, r, "elapsed"))
    /\ UNCHANGED <<others, task, ops>>

\* the task of run r's start_simulation is cancelled in its sleep
StartCancelled(r) ==
    /\ ops < budget
    /\ starter[r].pc = "sleeping"
    /\ SetWorld(start_cleanup(World, r, "cancelled"))
    /\ ops' = ops + 1
    /\ UNCHANGED <<others, task>>

\* gather(*self.tasks, return_exceptions=True) is over when every task is
AllDone(snap) == \A i \in 1..Len(snap) : proc[snap[i]].pc = "done"

\* the stop_simulation of run r's cleanup goes on after its gather
StartStopped(r) ==
    /\ starter[r].pc = "stopping"
    /\ AllDone(starter[r].call.snap)
    /\ SetWorld([stop_end(World, starter[r].call)
                    EXCEPT !.starter[r] = [pc |-> "done", how |-> starter[r].how]])
    /\ UNCHANGED <<others, task, ops>>

\* a call of stop_simulation from outside
StopSimulation ==
    /\ ops < budget
    /\ stopper = NoCall
    /\ LET s == stop_simulation(World, 0)
       IN SetWorld([s.w EXCEPT !.stopper = s.call])
    /\ ops' = ops + 1
    /\ UNCHANGED <<others, task>>

StopReturned ==
    /\ stopper # NoCall
    /\ AllDone(stopper.snap)
    /\ SetWorld([stop_end(World, stopper) EXCEPT !.stopper = NoCall])
    /\ UNCHANGED <<others, task, ops>>

\* ------------------------------------------------ the tasks of a run
\* MockICUUnit.start_unit_simulation: a task per device, then gather; a
\* task cancelled before its first step never runs its body
start_unit_simulation(w, r) ==
    IF w.proc[Proc("unit", r)].cancel \/ w.devices = <<>>
    THEN [w EXCEPT !.proc[Proc("unit", r)].pc = "done"]
    ELSE [w EXCEPT !.proc =
             [p \in ProcIds |->
                 IF p = Proc("unit", r) THEN [w.proc[p] EXCEPT !.pc = "wait"]
                 ELSE IF p.fn = "dev" /\ p.run = r /\ p.dev <= Len(w.devices)
                 THEN [pc |-> "new", cancel |-> FALSE]
                 ELSE w.proc[p]]]

UnitRun(r) ==
    /\ proc[Proc("unit", r)].pc = "new"
    /\ SetWorld(start_unit_simulation(World, r))
    /\ UNCHANGED <<others, task, ops>>

\* its gather ends (with the results, or cancelled) once the device tasks have
UnitFinish(r) ==
    /\ proc[Proc("unit", r)].pc = "wait"
    /\ \A d \in DevIds : proc[Dev(d, r)].pc \in {"none", "done"}
    /\ proc' = [proc EXCEPT ![Proc("unit", r)].pc = "done"]
    /\ UNCHANGED <<topics, subscribers, agent, total_decisions, total_messages, history,
                   delivered, returned, raised, made, is_running, tasks, starter, stopper,
                   devices, final_reports, reported, stopped, startCalls, others,
                   task, ops>>

\* WorkflowCoordinator._periodic_monitoring: `while self.is_running:` a status
\* report, then sleep(30); cancelled at the sleep, or before its first step
periodic_monitoring(w, r) ==
    IF w.proc[Proc("mon", r)].cancel \/ ~w.is_running
    THEN [w EXCEPT !.proc[Proc("mon", r)].pc = "done", !.reported[r] = 0]
    ELSE [w EXCEPT !.proc[Proc("mon", r)].pc = "wait", !.reported[r] = @ + 1]

\* (faulty variant of monitoring_failed: no try/except in the loop, the
\* exception ends the task)
monitoring_failed_ends(w, r) ==
    [w EXCEPT !.proc[Proc("mon", r)].pc = "done", !.reported[r] = 0]

\* its `except Exception`: the error is printed, nothing is written, and the
\* task sleeps 10 s inside the loop
monitoring_failed(w, r) == [w EXCEPT !.proc[Proc("mon", r)].pc = "wait"]

MonRun(r) ==
    /\ proc[Proc("mon", r)].pc = "new"
    /\ SetWorld(periodic_monitoring(World, r))
    /\ UNCHANGED <<others, task, ops>>

MonWake(r) ==
    /\ proc[Proc("mon", r)].pc = "wait"
    /\ proc[Proc("mon", r)].cancel \/ ~is_running
    /\ SetWorld(periodic_monitoring(World, r))
    /\ UNCHANGED <<others, task, ops>>

\* its sleep ends while the coordinator is running: the next status report
MonReport(r) ==
    /\ ops < budget
    /\ proc[Proc("mon", r)].pc = "wait"
    /\ ~proc[Proc("mon", r)].cancel /\ is_running
    /\ SetWorld(periodic_monitoring(World, r))
    /\ ops' = ops + 1
    /\ UNCHANGED <<others, task>>

\* what a monitor reads: a heart rate below the physician's threshold, or a
\* temperature no agent reacts to
Readings ==
    {[parameter |-> "heart_rate", value |-> 400],
     [parameter |-> "temperature", value |-> 370]}

\* the finally of MockDevice.start_simulation
device_exit(w, r, d) ==
    [w EXCEPT !.devices[d].is_running = FALSE, !.proc[Dev(d, r)].pc = "done"]

\* one emission of the device's loop: publish to its first suspension or to
\* the sleep(5) after it
device_emit(w, r, d, reading) ==
    LET res == publish(w, "vitals", [patient_id |-> w.devices[d].patient_id] @@ reading)
    IN [w |-> [res.w EXCEPT !.proc[Dev(d, r)].pc = "wait"],
        frame |-> IF res.at = 0 THEN Idle ELSE Frame("publish", "vitals", res.message, res, 0)]

\* MockDevice.start_simulation, first step of its task
DevRun(r, d, reading) ==
    /\ proc[Dev(d, r)].pc = "new"
    /\ IF proc[Dev(d, r)].cancel \/ devices[d].is_running
       THEN \* cancelled before it ran, or `if self.is_running: return`
            /\ SetWorld([World EXCEPT !.proc[Dev(d, r)].pc = "done"])
            /\ UNCHANGED <<task, ops>>
       ELSE /\ ops < budget
            /\ LET e == device_emit([World EXCEPT !.devices[d].is_running = TRUE], r, d, reading)
               IN SetWorld(e.w) /\ task' = [task EXCEPT ![Slot(d, r)] = e.frame]
            /\ ops' = ops + 1
    /\ UNCHANGED others

\* its sleep(5) ends: the loop condition is read again
DevWake(r, d, elapsed, reading) ==
    /\ proc[Dev(d, r)].pc = "wait"
    /\ ~proc[Dev(d, r)].cancel
    /\ task[Slot(d, r)] = Idle
    /\ IF ~devices[d].is_running \/ elapsed
       THEN /\ SetWorld(device_exit(World, r, d))
            /\ UNCHANGED <<task, ops>>
       ELSE /\ ops < budget
            /\ LET e == device_emit(World, r, d, reading)
               IN SetWorld(e.w) /\ task' = [task EXCEPT ![Slot(d, r)] = e.frame]
            /\ ops' = ops + 1
    /\ UNCHANGED others

\* CancelledError at the await it is in (the sleep, or the Decision Engine
\* call below its publish): nothing catches it, the finally runs
DevCancelled(r, d) ==
    /\ proc[Dev(d, r)].pc = "wait"
    /\ proc[Dev(d, r)].cancel
    /\ SetWorld(device_exit(World, r, d))
    /\ task' = [task EXCEPT ![Slot(d, r)] = Idle]
    /\ UNCHANGED <<others, ops>>

\* what the steps below leave unchanged besides the failure log
aside == <<state, agents, patients, initCount, subscribedAt, written, lastRead, budget,
           initLog, assignLog>>
Failure(p) ==
    [proc |-> p, at |-> IF "vitals" \in DOMAIN history THEN Len(history["vitals"]) ELSE 0,
     reports |-> IF p.fn = "mon" THEN reported[p.run] ELSE 0]

\* an exception inside the device's try (generate_vitals raises) when it
\* enters its loop or comes back from sleep(5): `except Exception` prints it
\* and the finally ends the task
DevFails(r, d) ==
    /\ proc[Dev(d, r)].pc \in {"new", "wait"}
    /\ ~proc[Dev(d, r)].cancel
    /\ task[Slot(d, r)] = Idle
    /\ devices[d].is_running <=> proc[Dev(d, r)].pc = "wait"
    /\ SetWorld(device_exit(World, r, d))
    /\ failures' = failures \cup {Failure(Dev(d, r))}
    /\ UNCHANGED <<aside, task, ops>>

\* _generate_status_report raises in the monitoring loop: `except Exception`
\* prints it, the task sleeps 10 s and goes on
MonFails(r) ==
    /\ proc[Proc("mon", r)].pc \in {"new", "wait"}
    /\ ~proc[Proc("mon", r)].cancel
    /\ is_running
    /\ SetWorld(monitoring_failed(World, r))
    /\ failures' = failures \cup {Failure(Proc("mon", r))}
    /\ UNCHANGED <<aside, task, ops>>

\* ------------------------------------------- a device driven directly
\* asyncio.create_task(device.start_simulation(...)), as the unit does for each
\* of its devices: the r-th task made for device d
DeviceStart(r, d) ==
    /\ d <= Len(devices)
    /\ proc[Dev(d, r)].pc = "none"
    /\ \A q \in Runs : q < r => proc[Dev(d, q)].pc # "none"
    /\ SetWorld([World EXCEPT !.proc[Dev(d, r)] = [pc |-> "new", cancel |-> FALSE]])
    /\ UNCHANGED <<others, task, ops>>

\* MockDevice.stop_simulation
DeviceStop(d) ==
    /\ d <= Len(devices)
    /\ devices[d].is_running
    /\ SetWorld([World EXCEPT !.devices[d].is_running = FALSE])
    /\ UNCHANGED <<others, task, ops>>

\* Task.cancel() on the task of a device
DeviceCancel(r, d) ==
    /\ proc[Dev(d, r)].pc \in {"new", "wait"}
    /\ ~proc[Dev(d, r)].cancel
    /\ SetWorld(cancel(World, Dev(d, r)))
    /\ UNCHANGED <<others, task, ops>>

\* ------------------------------------------- reads and shared state
Counts == {0, 1, MaxLen + 1}
GetMessages(topic, count) ==
    /\ ops < budget
    /\ lastRead' = [topic |-> topic, count |-> count,
                    result |-> get_messages(topics, topic, count),
                    seen |-> IF topic \in DOMAIN history THEN history[topic] ELSE <<>>]
    /\ topics' = Touch(topics, topic, <<>>)
    /\ ops' = ops + 1
    /\ UNCHANGED <<subscribers, state, agent, agents, patients, total_decisions,
                   total_messages, task, initCount, history, delivered, returned,
                   raised, made, subscribedAt, written, budget, simvars, ghosts>>

Keys == {PatientKey(1), <<"unit", 0>>}
Values == {[status |-> "admitted"], [status |-> "discharged"]}
SetState(key, value) ==
    /\ ops < budget
    /\ state' = set_state(state, key, value)
    /\ written' = (key :> value) @@ written
    /\ ops' = ops + 1
    /\ UNCHANGED <<topics, subscribers, agent, agents, patients, total_decisions,
                   total_messages, task, initCount, history, delivered, returned,
                   raised, made, subscribedAt, lastRead, budget, simvars, ghosts>>

\* ------------------------------------------------ the specification
\* the state once the modules are imported: an empty bus, a coordinator
\* with no agents and no patients
Constructed ==
    /\ topics = <<>>
    /\ subscribers = <<>>
    /\ state = <<>>
    /\ agent = [o \in AgentObjs |-> NewAgent]
    /\ agents = [k \in AgentKinds |-> 0]
    /\ patients = <<>>
    /\ total_decisions = 0
    /\ total_messages = 0
    /\ task = [t \in Tasks |-> Idle]
    /\ initCount = 0
    /\ ops = 0
    /\ history = <<>>
    /\ delivered = <<>>
    /\ returned = <<>>
    /\ raised = {}
    /\ made = [o \in AgentObjs |-> [ok |-> 0, failed |-> 0, last |-> None]]
    /\ subscribedAt = <<>>
    /\ written = <<>>
    /\ lastRead = [topic |-> "none", count |-> 0, result |-> <<>>, seen |-> <<>>]
    /\ is_running = FALSE
    /\ tasks = <<>>
    /\ proc = [p \in ProcIds |-> [pc |-> "none", cancel |-> FALSE]]
    /\ starter = [r \in Runs |-> NoStart]
    /\ stopper = NoCall
    /\ devices = <<>>
    /\ final_reports = 0
    /\ reported = [r \in Runs |-> 0]
    /\ stopped = <<>>
    /\ startCalls = 0
    /\ initLog = <<>>
    /\ assignLog = [o \in AgentObjs |-> <<>>]
    /\ failures = {}

\* The running system: tasks publish telemetry and call agents while the
\* Decision Engine calls of other tasks are pending.
Init == Constructed /\ budget = MaxCalls

Next ==
    \/ \E t \in Tasks, topic \in {"vitals", "alerts", "medications", "labs"} :
          \E message \in Bodies(topic) : Publish(t, topic, message)
    \/ \E t \in Tasks, context \in Contexts :
          CallMakeDecision(t, Obj("physician", 1), 1, context)
    \/ \E t \in Tasks, ok \in BOOLEAN : Resume(t, ok)
    \/ \E t \in Tasks : Cancel(t)
    \/ FirstInitialize

Spec == Init /\ [][Next]_vars

\* The bus used by one caller: publishes that no agent reacts to, reads of
\* the buffers, and the shared state store.
InitBus == Constructed /\ budget = MaxPublish

NextBus ==
    \/ \E topic \in {"labs", "other"} : \E message \in Bodies(topic) :
          Publish(1, topic, message)
    \/ \E topic \in {"labs", "other"}, count \in Counts : GetMessages(topic, count)
    \/ \E key \in Keys, value \in Values : SetState(key, value)
    \/ FirstInitialize

SpecBus == InitBus /\ [][NextBus]_vars

\* One caller that awaits each of its calls: events for assigned and for
\* unassigned subjects are published one after another, agents are shut down
\* between them, and the Decision Engine always answers.

Events(topic) ==
    CASE topic = "vitals" ->
           {[patient_id |-> 1, parameter |-> "heart_rate", value |-> 400],
            [patient_id |-> 1, parameter |-> "heart_rate", value |-> 1600],
            [patient_id |-> 1, parameter |-> "heart_rate", value |-> 800],
            [patient_id |-> 1, parameter |-> "temperature", value |-> 385],
            [patient_id |-> 1, parameter |-> "temperature", value |-> 370],
            [patient_id |-> 0, parameter |-> "heart_rate", value |-> 400],
            [patient_id |-> 0, parameter |-> "temperature", value |-> 385]}
      [] topic = "alerts" ->
           {[patient_id |-> 1, severity |-> "high"], [patient_id |-> 1, severity |-> "critical"],
            [patient_id |-> 1, severity |-> "low"], [patient_id |-> 0, severity |-> "high"]}
      [] OTHER ->
           {[patient_id |-> 1, drug_name |-> "Warfarin"],
            [patient_id |-> 1, drug_name |-> "Propofol"],
            [patient_id |-> 0, drug_name |-> "Warfarin"]}

InitAgents == Constructed /\ budget = MaxEvents

NextAgents ==
    \/ \E topic \in {"vitals", "alerts", "medications"} :
          \E message \in Events(topic) : Publish(1, topic, message)
    \/ Resume(1, TRUE)
    \/ \E kind \in AgentKinds : Shutdown(Obj(kind, 1))
    \/ FirstInitialize

SpecAgents == InitAgents /\ [][NextAgents]_vars

\* The coordinator's runs: start_simulation and stop_simulation are called
\* while the unit, device and monitoring tasks of the runs are scheduled.
InitSim == Constructed /\ budget = MaxSim

NextSim ==
    \/ FirstInitialize
    \/ StartSimulation
    \/ StopSimulation
    \/ StopReturned
    \/ \E r \in Runs : StartElapsed(r)
    \/ \E r \in Runs : StartCancelled(r)
    \/ \E r \in Runs : StartStopped(r)
    \/ \E r \in Runs : UnitRun(r)
    \/ \E r \in Runs : UnitFinish(r)
    \/ \E r \in Runs : MonRun(r)
    \/ \E r \in Runs : MonWake(r)
    \/ \E r \in Runs, d \in DevIds, reading \in Readings : DevRun(r, d, reading)
    \/ \E r \in Runs, d \in DevIds, elapsed \in BOOLEAN, reading \in Readings :
          DevWake(r, d, elapsed, reading)
    \/ \E r \in Runs, d \in DevIds : DevCancelled(r, d)
    \/ \E t \in Tasks : Resume(t, TRUE)

SpecSim == InitSim /\ [][NextSim]_vars

\* The same system with progress: the asyncio.sleep(duration) of a
\* start_simulation call ends.
InitSimFair == Constructed /\ budget = MaxSimFair

SpecSimFair ==
    InitSimFair /\ [][NextSim]_vars /\ \A r \in Runs : WF_vars(StartElapsed(r))

\* Runs in which tasks fail: the unit has the devices of two initialize()
\* calls, and a device's or the monitoring task's step may raise.
InitFail == Constructed /\ budget = MaxFail

NextFail ==
    \/ Initialize
    \/ StartSimulation
    \/ StopSimulation
    \/ StopReturned
    \/ \E r \in Runs : StartElapsed(r)
    \/ \E r \in Runs : StartCancelled(r)
    \/ \E r \in Runs : StartStopped(r)
    \/ \E r \in Runs : UnitRun(r)
    \/ \E r \in Runs : UnitFinish(r)
    \/ \E r \in Runs : MonRun(r)
    \/ \E r \in Runs : MonWake(r)
    \/ \E r \in Runs : MonFails(r)
    \/ \E r \in Runs, d \in DevIds, reading \in Readings : DevRun(r, d, reading)
    \/ \E r \in Runs, d \in DevIds, elapsed \in BOOLEAN, reading \in Readings :
          DevWake(r, d, elapsed, reading)
    \/ \E r \in Runs, d \in DevIds : DevCancelled(r, d)
    \/ \E r \in Runs, d \in DevIds : DevFails(r, d)
    \/ \E t \in Tasks : Resume(t, TRUE)

SpecFail == InitFail /\ [][NextFail]_vars

\* The monitoring task at work: its sleeps end while the coordinator runs,
\* a report may fail, and every task that can take a step gets to take it.
InitMon == Constructed /\ budget = MaxMon

NextMon ==
    \/ FirstInitialize
    \/ StartSimulation
    \/ StopSimulation
    \/ StopReturned
    \/ \E r \in Runs : StartElapsed(r)
    \/ \E r \in Runs : StartCancelled(r)
    \/ \E r \in Runs : StartStopped(r)
    \/ \E r \in Runs : UnitRun(r)
    \/ \E r \in Runs : UnitFinish(r)
    \/ \E r \in Runs : MonRun(r)
    \/ \E r \in Runs : MonWake(r)
    \/ \E r \in Runs : MonReport(r)
    \/ \E r \in Runs : MonFails(r)
    \/ \E r \in Runs, d \in DevIds, reading \in Readings : DevRun(r, d, reading)
    \/ \E r \in Runs, d \in DevIds, elapsed \in BOOLEAN, reading \in Readings :
          DevWake(r, d, elapsed, reading)
    \/ \E r \in Runs, d \in DevIds : DevCancelled(r, d)
    \/ \E t \in Tasks : Resume(t, TRUE)

SpecMonFair ==
    /\ InitMon /\ [][NextMon]_vars
    /\ \A r \in Runs : WF_vars(MonRun(r)) /\ WF_vars(MonWake(r))

\* One unit's devices used directly: tasks are made for a device's
\* start_simulation, the device is stopped, a task is cancelled or fails,
\* while the loops emit and sleep.
InitDevice == Constructed /\ budget = MaxDevice

NextDevice ==
    \/ FirstInitialize
    \/ \E r \in Runs, d \in DevIds : DeviceStart(r, d)
    \/ \E d \in DevIds : DeviceStop(d)
    \/ \E r \in Runs, d \in DevIds : DeviceCancel(r, d)
    \/ \E r \in Runs, d \in DevIds, reading \in Readings : DevRun(r, d, reading)
    \/ \E r \in Runs, d \in DevIds, elapsed \in BOOLEAN, reading \in Readings :
          DevWake(r, d, elapsed, reading)
    \/ \E r \in Runs, d \in DevIds : DevCancelled(r, d)
    \/ \E r \in Runs, d \in DevIds : DevFails(r, d)
    \/ \E t \in Tasks : Resume(t, TRUE)

SpecDevice == InitDevice /\ [][NextDevice]_vars

\* The bring-up: initialize() is called, possibly again, and may fail at one
\* of the agents' subscribe calls; a caller that awaits each of its calls
\* assigns patients and publishes events.
BringUpEvents(topic) ==
    CASE topic = "vitals" -> {[patient_id |-> 1, parameter |-> "heart_rate", value |-> 400]}
      [] OTHER -> {[patient_id |-> 1, test |-> "glucose"]}

InitBringUp == Constructed /\ budget = MaxBringUp

NextBringUp ==
    \/ Initialize
    \/ \E k \in 1..4 : InitializeFails(k)
    \/ \E self \in AgentObjs, patient_id \in PatientIds : AssignPatient(self, patient_id)
    \/ \E topic \in {"vitals", "labs"} :
          \E message \in BringUpEvents(topic) : Publish(1, topic, message)
    \/ Resume(1, TRUE)

SpecBringUp == InitBringUp /\ [][NextBringUp]_vars

\* The agents' callbacks over their input values: after initialize(), one
\* caller that awaits each of its calls publishes vitals at, next to and
\* between the thresholds, for known and unknown parameters, and events that
\* lack a field.
Band(parameter) ==
    CASE parameter = "heart_rate" -> {499, 500, 501, 800, 1199, 1200, 1201}
      [] parameter = "systolic_bp" -> {899, 900, 901, 1799, 1800, 1801}
      [] parameter = "spo2" -> {919, 920, 921, 999, 1000, 1001}
      [] OTHER -> {499, 1201}

Inputs(topic) ==
    CASE topic = "vitals" ->
           {[patient_id |-> 1, parameter |-> parameter, value |-> value] :
               <<parameter, value>> \in
                   UNION {{parameter} \X Band(parameter) :
                             parameter \in {"heart_rate", "systolic_bp", "spo2",
                                            "respiratory_rate"}}}
           \cup {[patient_id |-> 0, parameter |-> "heart_rate", value |-> 499],
                 [parameter |-> "heart_rate", value |-> 400],
                 [patient_id |-> 1, value |-> 400],
                 [patient_id |-> 1, parameter |-> "heart_rate"],
                 [patient_id |-> 1, parameter |-> "temperature"]}
      [] OTHER ->
           {[patient_id |-> 1], [drug_name |-> "Warfarin"],
            [patient_id |-> 1, drug_name |-> "Warfarin"]}

InitInputs == Constructed /\ budget = MaxInputs

NextInputs ==
    \/ FirstInitialize
    \/ \E topic \in {"vitals", "medications"} :
          \E message \in Inputs(topic) : Publish(1, topic, message)
    \/ Resume(1, TRUE)

SpecInputs == InitInputs /\ [][NextInputs]_vars

\* ============================================================ claims
Hist(topic) == IF topic \in DOMAIN history THEN history[topic] ELSE <<>>
\* the last k entries of a sequence
Last(s, k) == SubSeq(s, Len(s) - k + 1, Len(s))

\* C1: get_messages(topic, N) returns at most min(N, maxlen) messages, for
\* every N including 0, and they are the most recent ones, oldest first.
C1_GetMessagesAtMostN ==
    lastRead.topic # "none" =>
        /\ Len(lastRead.result) <= Min(lastRead.count, MaxLen)
        /\ Len(lastRead.result) <= Len(lastRead.seen)
        /\ lastRead.result = Last(lastRead.seen, Len(lastRead.result))

\* C2: a topic's buffer never holds more than maxlen messages, and after n
\* appends it holds exactly the last min(n, maxlen) messages appended, in
\* append order.
C2_BufferIsLastAppended ==
    \A topic \in DOMAIN topics :
        /\ Len(topics[topic]) <= MaxLen
        /\ topics[topic] = Last(Hist(topic), Min(Len(Hist(topic)), MaxLen))

\* C2 witness: a topic has received more messages than its buffer holds,
\* so the oldest has been evicted.
C2_Witness ==
    \E topic \in DOMAIN topics :
        Len(Hist(topic)) > MaxLen /\ Len(topics[topic]) = MaxLen

\* C3: of two messages appended to the same topic, the later one carries a
\* strictly greater sequence id (_id), also once the buffer has been full.
C3_SequenceIdStrictlyIncreasing ==
    \A topic \in DOMAIN history :
        \A i, j \in 1..Len(history[topic]) :
            i < j => history[topic][i]["_id"][2] < history[topic][j]["_id"][2]

\* C8: get_state(key) is the value of the latest set_state of that key, None
\* for a key never set; a set_state of one key changes no other key.
C8_LastWriteWins ==
    \A key \in Keys \cup DOMAIN state :
        get_state(state, key) = (IF key \in DOMAIN written THEN written[key] ELSE None)

\* C8 witness: the patient's key has been written twice (by initialize() and
\* by a set_state call) and reads the later value, another key has its own
\* value, and a key was never set.
C8_Witness ==
    /\ initCount = 1
    /\ get_state(state, PatientKey(1)) = [status |-> "discharged"]
    /\ get_state(state, <<"unit", 0>>) = [status |-> "admitted"]

\* ------------------------------------------------ delivery claims
\* the messages (by ordinal) that subscription idx of a topic was invoked
\* with, in invocation order
RECURSIVE GotFrom(_, _, _)
GotFrom(log, topic, idx) ==
    IF log = <<>> THEN <<>>
    ELSE IF Head(log).topic = topic /\ Head(log).idx = idx
         THEN <<Head(log).seq>> \o GotFrom(Tail(log), topic, idx)
         ELSE GotFrom(Tail(log), topic, idx)
Got(topic, idx) == GotFrom(delivered, topic, idx)
Increasing(s) == \A n, m \in 1..Len(s) : n < m => s[n] < s[m]
Subscriptions_(topic) == 1..Len(subscribers[topic])

\* C4: a subscription registered after k messages were appended to its topic
\* is invoked with none of those k, and with every message published
\* afterwards, in publish order.
C4_LateSubscription ==
    \A topic \in DOMAIN subscribers : \A idx \in Subscriptions_(topic) :
        LET k == subscribedAt[topic][idx]
            got == Got(topic, idx)
        IN /\ \A n \in 1..Len(got) : got[n] > k
           /\ Increasing(got)
           /\ \A n \in 1..Len(returned) :
                 (returned[n].topic = topic /\ returned[n].ret /\ returned[n].seq > k)
                     => returned[n].seq \in Range(got)

\* C5: for a fixed topic every subscriber is invoked with the messages in the
\* order they were appended to the buffer, also when tasks publish
\* concurrently and an earlier subscriber's callback is suspended.
C5_SubscribersSeePublishOrder ==
    \A topic \in DOMAIN subscribers : \A idx \in Subscriptions_(topic) :
        Increasing(Got(topic, idx))

\* how far the publish of a message has got: the number of subscribers when
\* it returned, the suspended subscriber's index while it is in flight
InFlight(topic, seq) ==
    {t \in Tasks : task[t].kind = "publish" /\ task[t].topic = topic
                   /\ task[t].message.seq = seq}
ReturnedOf(topic, seq) ==
    {n \in 1..Len(returned) : returned[n].topic = topic /\ returned[n].seq = seq}
WasInvoked(topic, idx, seq) == [topic |-> topic, idx |-> idx, seq |-> seq] \in Range(delivered)

\* C6: when a callback raises during a publish, the message has been stored,
\* the subscribers after it are invoked with it in subscription order (all of
\* them once the publish has returned, those up to the suspended one while
\* it is in flight), and the publish returns True.
C6_CallbackFailureIsolated ==
    \A e \in raised :
        /\ e.seq <= Len(Hist(e.topic))
        /\ \A n \in ReturnedOf(e.topic, e.seq) :
              /\ returned[n].ret = TRUE
              /\ \A idx \in (e.idx + 1)..returned[n].subs : WasInvoked(e.topic, idx, e.seq)
        /\ \A t \in InFlight(e.topic, e.seq) :
              \A idx \in (e.idx + 1)..task[t].at : WasInvoked(e.topic, idx, e.seq)
        /\ \A a, b \in 1..Len(delivered) :
              (a < b /\ delivered[a].topic = e.topic /\ delivered[b].topic = e.topic
                     /\ delivered[a].seq = e.seq /\ delivered[b].seq = e.seq)
                  => delivered[a].idx < delivered[b].idx

\* C6 witness: a callback raised, subscribers came after it, and the publish
\* has returned.
C6_Witness ==
    \E e \in raised : \E n \in ReturnedOf(e.topic, e.seq) : returned[n].subs > e.idx

\* C7: no subscription is invoked twice with the same message, also when a
\* callback publishes (the decision) and when publishes of several tasks
\* interleave.
C7_AtMostOnce ==
    \A a, b \in 1..Len(delivered) : a < b => delivered[a] # delivered[b]

\* C7 witness: two publishes on vitals interleaved (the first message is
\* delivered before and after the second one) and a decision published from
\* inside a callback has been delivered.
C7_Witness ==
    /\ \E a, b, c \in 1..Len(delivered) :
          /\ a < b /\ b < c
          /\ delivered[a].topic = "vitals" /\ delivered[b].topic = "vitals"
          /\ delivered[c].topic = "vitals"
          /\ delivered[a].seq = delivered[c].seq /\ delivered[a].seq # delivered[b].seq
    /\ \E d \in 1..Len(delivered) : delivered[d].topic = "agent_decisions"

\* ------------------------------------------------ agent counters
\* C9: decision_count grows by 1 with every make_decision call that succeeds
\* and by 0 with every one that fails, and confidence_scores has one entry
\* per successful call, on every path into make_decision.
C9_CountsSuccessfulDecisions ==
    \A o \in AgentObjs :
        /\ agent[o].decision_count = made[o].ok
        /\ Len(agent[o].confidence_scores) = made[o].ok

\* C9 witness: an agent has had a successful and a failed make_decision call.
C9_Witness == \E o \in AgentObjs : made[o].ok >= 1 /\ made[o].failed >= 1

\* the agent objects that an initialize() call has constructed
Created == {o \in AgentObjs : \E i \in 1..Len(initLog) : initLog[i].gen = o.gen}

\* the decisions of agent o that were appended to agent_decisions
PublishedBy(o) ==
    {i \in 1..Len(Hist("agent_decisions")) :
        /\ "agent_id" \in DOMAIN Hist("agent_decisions")[i]
        /\ Hist("agent_decisions")[i].agent_id = agent_id(o)}

\* C10: in every state an agent's decision_count is the number of its
\* decisions that publish has stored on agent_decisions.
C10_CountEqualsPublished ==
    \A o \in Created : agent[o].decision_count = Cardinality(PublishedBy(o))

\* C10 witness: an agent has published a decision and another make_decision
\* call of the same agent is suspended at the Decision Engine.
C10_Witness ==
    \E o \in AgentObjs : \E t \in Tasks :
        /\ agent[o].decision_count >= 1
        /\ task[t] # Idle /\ task[t].self = o /\ task[t].phase = "process"

\* ------------------------------------------------ make_decision's result
\* C11: when process_patient_data fails inside make_decision, the call does
\* not raise: it returns a dict with an error field, nothing is appended to
\* agent_decisions, and the agent's decision_count, response_times,
\* confidence_scores and last_decision_time are what they were.
C11_FailureReturnsErrorResult ==
    [][\A o \in AgentObjs :
          made'[o].failed = made[o].failed + 1 =>
              /\ "error" \in DOMAIN made'[o].last
              /\ agent'[o] = agent[o]
              /\ Hist("agent_decisions")' = Hist("agent_decisions")
              /\ raised' = raised]_vars

\* C11 witness: a make_decision call of an agent that had already decided
\* once has failed and returned the error dict; the counters still show the
\* one decision.
C11_Witness ==
    \E o \in AgentObjs :
        /\ made[o].failed = 1 /\ "error" \in DOMAIN made[o].last
        /\ agent[o].decision_count = 1 /\ Len(agent[o].response_times) = 1
        /\ agent[o].last_decision_time = TRUE

\* ------------------------------------------------ what an event produces
Quiescent == \A t \in Tasks : task[t] = Idle

\* the callback `fn` of some subscription of the topic was invoked with the
\* topic's i-th message
DeliveredTo(topic, fn, i) ==
    /\ topic \in DOMAIN subscribers
    /\ \E idx \in 1..Len(subscribers[topic]) :
          subscribers[topic][idx].fn = fn /\ WasInvoked(topic, idx, i)

\* the events of a topic, for the assigned subject, that satisfy the claim's
\* condition and reached the callback
HeartRateEvents(values) ==
    {i \in 1..Len(Hist("vitals")) :
        LET m == Hist("vitals")[i]
        IN /\ m.patient_id = AssignedPatient(1) /\ m.parameter = "heart_rate"
           /\ m.value \in values /\ DeliveredTo("vitals", "_handle_vitals", i)}
TemperatureEvents(values) ==
    {i \in 1..Len(Hist("vitals")) :
        LET m == Hist("vitals")[i]
        IN /\ m.patient_id = AssignedPatient(1) /\ m.parameter = "temperature"
           /\ m.value \in values /\ DeliveredTo("vitals", "_handle_vitals_monitoring", i)}
AlertEvents(severities) ==
    {i \in 1..Len(Hist("alerts")) :
        LET m == Hist("alerts")[i]
        IN /\ m.patient_id = AssignedPatient(1) /\ m.severity \in severities
           /\ DeliveredTo("alerts", "_handle_alerts", i)}
MedicationEvents(drugs) ==
    {i \in 1..Len(Hist("medications")) :
        LET m == Hist("medications")[i]
        IN /\ m.patient_id = AssignedPatient(1) /\ m.drug_name \in drugs
           /\ DeliveredTo("medications", "_handle_medication_review", i)}

\* the decisions on agent_decisions that an agent of the kind published
DecisionsOf(kind) ==
    {j \in 1..Len(Hist("agent_decisions")) :
        /\ "agent_type" \in DOMAIN Hist("agent_decisions")[j]
        /\ Hist("agent_decisions")[j].agent_type = kind}
Decision(j) == Hist("agent_decisions")[j]

\* C12: once the events have been handled, the physician has published one
\* decision per heart-rate reading of 40 or 160 of the assigned subject, each
\* with urgency high and trigger "critical_vital", and none for a reading of
\* 80 (its other decisions are those for high alerts).
C12_CriticalVitalGivesUrgentDecision ==
    Quiescent =>
        /\ Cardinality({j \in DecisionsOf("physician") :
                          /\ "urgency" \in DOMAIN Decision(j) /\ Decision(j).urgency = "high"
                          /\ "trigger" \in DOMAIN Decision(j)
                          /\ Decision(j).trigger = "critical_vital"})
              = Cardinality(HeartRateEvents({400, 1600}))
        /\ Cardinality(DecisionsOf("physician"))
              = Cardinality(HeartRateEvents({400, 1600})) + Cardinality(AlertEvents({"high", "critical"}))

\* C13: once the events have been handled, the nurse has published one
\* decision per temperature reading of 38.5 of the assigned subject, each a
\* nursing intervention with confidence 0.90, and none for 37.0; the nurse
\* never waits for the Decision Engine.
C13_FeverGivesNursingIntervention ==
    /\ \A t \in Tasks : task[t] # Idle => task[t].self.kind # "nurse"
    /\ Quiescent =>
          /\ Cardinality({j \in DecisionsOf("nurse") :
                            /\ Decision(j).recommendation_type = "nursing_intervention"
                            /\ Decision(j).confidence_score = 90})
                = Cardinality(TemperatureEvents({385}))
          /\ Cardinality(DecisionsOf("nurse")) = Cardinality(TemperatureEvents({385}))

\* C14: once the events have been handled, the pharmacist has published one
\* decision per medication event of the assigned subject that names a drug
\* of the interaction mapping, each an interaction alert with confidence
\* 0.95, and none for an unlisted drug.
C14_ListedDrugGivesInteractionAlert ==
    Quiescent =>
        /\ Cardinality({j \in DecisionsOf("pharmacist") :
                          /\ Decision(j).recommendation_type = "drug_interaction_alert"
                          /\ Decision(j).confidence_score = 95})
              = Cardinality(MedicationEvents({"Warfarin"}))
        /\ Cardinality(DecisionsOf("pharmacist")) = Cardinality(MedicationEvents({"Warfarin"}))

\* ------------------------------------------------ assignment, shutdown
\* the message a step appended to the topic, if it appended one
Appended(topic) == Len(Hist(topic))' = Len(Hist(topic)) + 1
NewMessage(topic) == Hist(topic)'[Len(Hist(topic)) + 1]

\* C19: a vitals, alert or medication event whose patient_id is not in an
\* agent's assigned list leaves that agent's counters and metrics unchanged,
\* does not make it wait for the Decision Engine, and adds no decision of it
\* to agent_decisions.
C19_OnlyAssignedSubjects ==
    [][\A topic \in {"vitals", "alerts", "medications"} : \A o \in AgentObjs :
          (Appended(topic)
             /\ NewMessage(topic).patient_id \notin Range(agent[o].patients_assigned))
          => /\ agent'[o] = agent[o]
             /\ PublishedBy(o)' = PublishedBy(o)
             /\ \A t \in Tasks : (task[t] = Idle /\ task'[t] # Idle) => task'[t].self # o]_vars

\* C19 witness: after initialize(), events of a subject that is not assigned
\* were delivered to the physician's and the pharmacist's callbacks, and no
\* agent has decided anything.
C19_Witness ==
    /\ \E i \in 1..Len(Hist("vitals")) :
          /\ Hist("vitals")[i].patient_id = 0 /\ Hist("vitals")[i].value = 400
          /\ DeliveredTo("vitals", "_handle_vitals", i)
    /\ \E i \in 1..Len(Hist("medications")) :
          /\ Hist("medications")[i].patient_id = 0
          /\ DeliveredTo("medications", "_handle_medication_review", i)
    /\ \A o \in AgentObjs : agent[o].decision_count = 0
    /\ Quiescent

\* C20: once shutdown() has cleared an agent's is_active, the flag stays
\* false and no event delivered afterwards changes its decision_count or adds
\* a decision of it to agent_decisions.
C20_ShutdownIsTerminal ==
    [][\A o \in AgentObjs :
          (agents[o.kind] = o.gen /\ ~agent[o].is_active) =>
              /\ ~agent'[o].is_active
              /\ agent'[o].decision_count = agent[o].decision_count
              /\ PublishedBy(o)' = PublishedBy(o)]_vars

\* ------------------------------------------------ start and stop
\* C15: a stop_simulation call made while the coordinator was running has,
\* when it returns, left no device with is_running true and no agent active
\* that was active when it was called.
C15_StopLeavesNothingRunning ==
    \A n \in 1..Len(stopped) :
        stopped[n].was_running =>
            /\ stopped[n].running_after = {}
            /\ stopped[n].active_before \cap stopped[n].active_after = {}

\* C16: a start_simulation call made while is_running is true changes
\* neither the flag nor the task list, creates no task, and stops nothing.
C16_StartWhileRunningIsNoOp ==
    [][(is_running /\ startCalls' = startCalls + 1) =>
          UNCHANGED <<is_running, tasks, proc, starter, stopper, devices, final_reports,
                      stopped, agent, task>>]_vars

\* C16 witness: start_simulation was called twice, the second time during
\* the first run; there is one run with its two tasks, still running.
C16_Witness ==
    /\ startCalls = 2 /\ is_running /\ Len(tasks) = 2
    /\ starter[1].pc = "sleeping" /\ starter[2].pc = "none"

\* C17: a stop_simulation call made while is_running is false shuts no agent
\* down, awaits no task, writes no final report and leaves the agents as
\* they were.
C17_StopWhenNotRunningIsNoOp ==
    \A n \in 1..Len(stopped) :
        ~stopped[n].was_running =>
            /\ ~stopped[n].persisted
            /\ ~stopped[n].awaited
            /\ stopped[n].shut = {}
            /\ stopped[n].active_after = stopped[n].active_before

\* the tasks that have been spawned and have not terminated
Live == {p \in ProcIds : proc[p].pc \notin {"none", "done"}}

\* a step in which a stop_simulation call starts
StopBegins ==
    \/ stopper = NoCall /\ stopper' # NoCall
    \/ Len(stopped') = Len(stopped) + 1 /\ ~stopped'[Len(stopped')].awaited
    \/ \E r \in Runs : starter[r].pc = "sleeping" /\ starter'[r].pc = "stopping"

\* C24: stop_simulation clears is_running and every device's is_running in
\* its first step, and it shuts no agent down and writes no final report
\* while a spawned task (unit, device or monitoring) has not terminated, so
\* that no device task is left to publish once it has returned.
C24_StopProtocolOrder ==
    /\ [][StopBegins =>
             /\ ~is_running'
             /\ \A d \in 1..Len(devices') : ~devices'[d].is_running]_vars
    /\ [][(\/ final_reports' # final_reports
           \/ \E o \in AgentObjs : agent[o].is_active /\ ~agent'[o].is_active)
          => Live = {}]_vars

\* stop_simulation has been called from the cleanup of run r
StopCalledBy(r) ==
    \/ starter[r].pc = "stopping"
    \/ \E n \in 1..Len(stopped) : stopped[n].by = r

\* C18: every start_simulation call that set is_running calls
\* stop_simulation from its cleanup, when its sleep ends and when it is
\* cancelled, and is_running is false again afterwards.
C18_StartAlwaysStops ==
    /\ \A r \in Runs : (starter[r].pc = "sleeping") ~> StopCalledBy(r)
    /\ is_running ~> ~is_running

\* C18 witness: a run whose start_simulation was cancelled in its sleep has
\* gone through stop_simulation, which found the coordinator running, and
\* the flag is false.
C18_Witness ==
    \E r \in Runs :
        /\ starter[r].pc = "done" /\ starter[r].how = "cancelled"
        /\ \E n \in 1..Len(stopped) : stopped[n].by = r /\ stopped[n].was_running
        /\ ~is_running

\* ------------------------------------------------ bring-up
\* the agent objects whose initialize() raised
FailedInit == {initLog[i].failed : i \in 1..Len(initLog)} \ {None}

\* the topics on which a method of agent o is subscribed
SubscriptionsOf(o) ==
    {topic \in DOMAIN subscribers :
        \E idx \in 1..Len(subscribers[topic]) : subscribers[topic][idx].self = o}

\* C21: an agent whose initialize() raised at a subscribe call is not active,
\* is not in the coordinator's registry, and has no subscription whose
\* callback can decide (none at all, or no subject assigned to react to).
C21_FailedBringUpLeavesNoPartialAgent ==
    \A o \in FailedInit :
        /\ ~agent[o].is_active
        /\ agents[o.kind] # o.gen
        /\ SubscriptionsOf(o) # {} => agent[o].patients_assigned = <<>>

\* the latest initialize() call has completed
LastInitializeCompleted == initLog # <<>> /\ initLog[Len(initLog)].failed = None

DevicesOf(patient_id) == {d \in 1..Len(devices) : devices[d].patient_id = patient_id}

\* C23: when initialize() has completed, the registry holds an agent of
\* each kind, every patient of the coordinator's registry is assigned to
\* every registered agent, and the unit holds exactly one device per patient
\* and no other device.
C23_FanOutAndOneDevicePerSubject ==
    LastInitializeCompleted =>
        /\ \A kind \in AgentKinds : agents[kind] # 0
        /\ \A o \in Registered : \A patient_id \in Range(patients) :
              patient_id \in Range(agent[o].patients_assigned)
        /\ \A patient_id \in Range(patients) : Cardinality(DevicesOf(patient_id)) = 1
        /\ Len(devices) = Len(patients)

\* C23 witness: initialize() has completed twice; the registry holds the
\* second call's agents, each assigned both patients, and the unit has two
\* devices.
C23_Witness ==
    /\ Len(initLog) = 2 /\ \A i \in 1..2 : initLog[i].failed = None
    /\ patients = <<1, 2>>
    /\ \A o \in Registered : o.gen = 2 /\ agent[o].patients_assigned = <<1, 2>>
    /\ Len(devices) = 2

NoDuplicates(s) == \A i, j \in 1..Len(s) : i # j => s[i] # s[j]

\* C22: after any sequence of assign_patient calls an agent's
\* patients_assigned holds exactly the ids it was called with, each once; a
\* call with an id that is already assigned leaves the agent as it was.
C22_AssignPatientIdempotent ==
    /\ [](\A o \in AgentObjs :
             /\ NoDuplicates(agent[o].patients_assigned)
             /\ Range(agent[o].patients_assigned) = Range(assignLog[o]))
    /\ [][\A o \in AgentObjs :
             (/\ Len(assignLog'[o]) = Len(assignLog[o]) + 1
              /\ assignLog'[o][Len(assignLog'[o])] \in Range(agent[o].patients_assigned))
             => agent'[o] = agent[o]]_vars

\* C22 witness: an agent that initialize() assigned patient 1 has been
\* assigned patient 1 again and then patient 2; its list is 1, 2.
C22_Witness ==
    \E o \in AgentObjs :
        assignLog[o] = <<1, 1, 2>> /\ agent[o].patients_assigned = <<1, 2>>

\* ------------------------------------------------ the coordinator's counters
\* an initialize() call has completed
Initialized == \E i \in 1..Len(initLog) : initLog[i].failed = None

\* the messages appended to a topic since callback fn was first subscribed to it
SubscribedFn(topic, fn) ==
    IF topic \in DOMAIN subscribers
    THEN {idx \in 1..Len(subscribers[topic]) : subscribers[topic][idx].fn = fn}
    ELSE {}
Since(topic, fn) ==
    IF SubscribedFn(topic, fn) = {} THEN 0
    ELSE LET first == CHOOSE idx \in SubscribedFn(topic, fn) :
                          \A other \in SubscribedFn(topic, fn) : idx <= other
         IN Len(Hist(topic)) - subscribedAt[topic][first]

\* C30: whenever no publish is in progress, total_decisions is the number of
\* messages published to agent_decisions since initialization and
\* total_messages is the number published to the five monitored topics since
\* then, also when initialize() has been called more than once.
C30_CountersCountEachMessageOnce ==
    (Quiescent /\ Initialized) =>
        /\ total_decisions = Since("agent_decisions", "_track_decisions")
        /\ total_messages =
              Since(MonitoredTopics[1], "_monitor_messages")
              + Since(MonitoredTopics[2], "_monitor_messages")
              + Since(MonitoredTopics[3], "_monitor_messages")
              + Since(MonitoredTopics[4], "_monitor_messages")
              + Since(MonitoredTopics[5], "_monitor_messages")

\* ------------------------------------------------ concurrent decisions
\* C26: whenever no call is in flight, an agent's decision_count, the length
\* of its response_times and the length of its confidence_scores all equal
\* the number of its make_decision calls that completed successfully, also
\* when calls of the same agent overlapped at the Decision Engine.
C26_CountersAgreeAtQuiescence ==
    Quiescent =>
        \A o \in AgentObjs :
            /\ agent[o].decision_count = made[o].ok
            /\ Len(agent[o].response_times) = made[o].ok
            /\ Len(agent[o].confidence_scores) = made[o].ok

\* C26 witness: two vitals events reached the physician's callback before
\* any decision was published, so its two decision requests were in flight
\* together; both have completed.
C26_Witness ==
    /\ Quiescent
    /\ made[Obj("physician", 1)].ok = 2
    /\ \E a, b \in 1..Len(delivered) :
          /\ a < b
          /\ delivered[a].topic = "vitals" /\ delivered[b].topic = "vitals"
          /\ delivered[a].idx = 1 /\ delivered[b].idx = 1
          /\ delivered[a].seq # delivered[b].seq
          /\ \A c \in 1..b : delivered[c].topic # "agent_decisions"

\* C27: once the events have been handled, the physician has published one
\* decision per alert of the assigned subject with severity high or
\* critical, each with urgency high and trigger "clinical_alert", and none
\* for an alert of another severity (its other decisions are those for
\* critical heart rates).
C27_HighAlertGivesUrgentDecision ==
    Quiescent =>
        /\ Cardinality({j \in DecisionsOf("physician") :
                          /\ "urgency" \in DOMAIN Decision(j) /\ Decision(j).urgency = "high"
                          /\ "trigger" \in DOMAIN Decision(j)
                          /\ Decision(j).trigger = "clinical_alert"})
              = Cardinality(AlertEvents({"high", "critical"}))
        /\ Cardinality(DecisionsOf("physician")) - Cardinality(HeartRateEvents({400, 1600}))
              = Cardinality(AlertEvents({"high", "critical"}))

\* ------------------------------------------------ input values
\* the thresholds as the claim states them, in tenths
ClaimedThresholds ==
    [heart_rate |-> <<500, 1200>>, systolic_bp |-> <<900, 1800>>, spo2 |-> <<920, 1000>>]
WellFormed(m) == {"patient_id", "parameter", "value"} \subseteq DOMAIN m
OutOfBand(m) ==
    /\ m.parameter \in DOMAIN ClaimedThresholds
    /\ \/ m.value < ClaimedThresholds[m.parameter][1]
       \/ m.value > ClaimedThresholds[m.parameter][2]
\* the step left the physician waiting for the Decision Engine's answer to
\* an urgent request
RequestsUrgentDecision ==
    \E t \in Tasks :
        /\ task[t] = Idle /\ task'[t] # Idle
        /\ task'[t].self = Obj("physician", 1) /\ task'[t].phase = "urgent"
        /\ task'[t].ctx.trigger = "critical_vital"

\* C28: a vitals event of a subject assigned to the physician starts a
\* decision request exactly when its parameter is heart_rate, systolic_bp or
\* spo2 and its value is strictly below the low or strictly above the high
\* threshold; a value on a threshold, inside the band, or of another
\* parameter starts none.
C28_TriggerPredicateIsExact ==
    [][(/\ Appended("vitals")
        /\ WellFormed(NewMessage("vitals"))
        /\ NewMessage("vitals").patient_id
               \in Range(agent[Obj("physician", 1)].patients_assigned)
        /\ SubscriptionsOf(Obj("physician", 1)) # {})
       => (RequestsUrgentDecision <=> OutOfBand(NewMessage("vitals")))]_vars

\* the vitals events with this parameter and value that reached the
\* physician's callback
VitalsOf(parameter, value) ==
    {i \in 1..Len(Hist("vitals")) :
        LET m == Hist("vitals")[i]
        IN /\ WellFormed(m) /\ m.patient_id = AssignedPatient(1)
           /\ m.parameter = parameter /\ m.value = value
           /\ DeliveredTo("vitals", "_handle_vitals", i)}

\* C28 witness: a systolic pressure of exactly 180.0 has been handled with
\* no decision, and a heart rate of 49.9 has started a decision request.
C28_Witness ==
    /\ VitalsOf("systolic_bp", 1800) = {1}
    /\ VitalsOf("heart_rate", 499) = {2}
    /\ Hist("agent_decisions") = <<>>
    /\ task[1] # Idle /\ task[1].phase = "urgent"

\* an event that lacks a field its handlers read
Malformed(topic, m) ==
    IF topic = "vitals" THEN ~WellFormed(m)
    ELSE ~({"patient_id", "drug_name"} \subseteq DOMAIN m)

\* C29: publishing an event that lacks patient_id, parameter, value or
\* drug_name adds no decision, changes no agent, leaves no callback waiting,
\* reaches every subscriber of the topic including the coordinator's
\* counter, and returns True.
C29_MalformedEventIsDropped ==
    [][\A topic \in {"vitals", "medications"} :
          (Appended(topic) /\ Malformed(topic, NewMessage(topic)) /\ Initialized)
          => /\ agent' = agent
             /\ Hist("agent_decisions")' = Hist("agent_decisions")
             /\ total_decisions' = total_decisions
             /\ total_messages' = total_messages + 1
             /\ Quiescent'
             /\ \A idx \in 1..Len(subscribers[topic]) :
                   [topic |-> topic, idx |-> idx, seq |-> NewMessage(topic).seq]
                       \in Range(delivered')
             /\ Len(returned') = Len(returned) + 1
             /\ returned'[Len(returned')] =
                   [topic |-> topic, seq |-> NewMessage(topic).seq, ret |-> TRUE,
                    subs |-> Len(subscribers[topic])]]_vars

\* C29 witness: a heart-rate event without a value made the physician's
\* callback raise, a medication event without a drug name was handled, both
\* publishes returned True, and nothing was decided.
C29_Witness ==
    /\ \E e \in raised :
          /\ e.topic = "vitals" /\ "value" \notin DOMAIN Hist("vitals")[e.seq]
          /\ \E n \in ReturnedOf("vitals", e.seq) : returned[n].ret /\ returned[n].subs = 3
    /\ \E i \in 1..Len(Hist("medications")) :
          /\ "drug_name" \notin DOMAIN Hist("medications")[i]
          /\ DeliveredTo("medications", "_handle_medication_review", i)
          /\ \E n \in ReturnedOf("medications", i) : returned[n].ret
    /\ Hist("agent_decisions") = <<>>
    /\ total_messages = 2

\* ------------------------------------------------ failing tasks
\* C25: a stop_simulation call that returns after a device or monitoring
\* task has failed has awaited every task it waited for, has shut down every
\* registered agent and has written the final report; and the step in which
\* a task fails changes no other task, no other device and neither the
\* running flag nor the task list.
C25_TaskFailureDoesNotBlockShutdown ==
    /\ [](\A n \in 1..Len(stopped) :
             stopped[n].failed # {} =>
                 /\ stopped[n].unfinished = {}
                 /\ stopped[n].persisted
                 /\ stopped[n].shut = stopped[n].registered
                 /\ stopped[n].active_after \cap stopped[n].registered = {})
    /\ [][\A f \in failures' \ failures :
             /\ \A p \in ProcIds \ {f.proc} : proc'[p] = proc[p]
             /\ \A d \in 1..Len(devices) :
                   (f.proc.fn = "mon" \/ d # f.proc.dev) => devices'[d] = devices[d]
             /\ is_running' = is_running /\ tasks' = tasks /\ agent' = agent]_vars

\* C25 witness: a device task failed during a run, the unit's other device
\* published a reading after that, and a stop_simulation call that found the
\* coordinator running has returned after cancelled tasks, with the agents
\* shut down and the report written.
C25_Witness ==
    \E f \in failures : \E n \in 1..Len(stopped) :
        /\ f.proc.fn = "dev"
        /\ \E i \in (f.at + 1)..Len(Hist("vitals")) :
              Hist("vitals")[i].patient_id # devices[f.proc.dev].patient_id
        /\ f \in stopped[n].failed
        /\ stopped[n].was_running /\ stopped[n].awaited /\ stopped[n].persisted
        /\ stopped[n].registered # {}
        /\ \E p \in Range(tasks) : proc[p].cancel

\* ------------------------------------------------ topic creation
\* the topics that a publish or a subscribe call has named
Used == DOMAIN subscribers \cup DOMAIN history

\* C33: a topic that was subscribed to or published to appears in
\* get_topic_stats with its retained message count, and a get_messages call
\* leaves the bus as it was: no topic appears in get_topic_stats because it
\* was read.
C33_TopicsAppearOnlyByPublishOrSubscribe ==
    /\ [](\A topic \in Used :
             /\ topic \in DOMAIN get_topic_stats(topics)
             /\ get_topic_stats(topics)[topic] = Len(topics[topic]))
    /\ [][(\E topic \in Topics, count \in Counts :
               GetMessages(topic, count))
             => /\ get_topic_stats(topics') = get_topic_stats(topics)
                /\ subscribers' = subscribers /\ state' = state]_vars

\* C33, reads only: a get_messages call leaves get_topic_stats as it was.
C33_ReadCreatesNoTopic ==
    [][(\E topic \in Topics, count \in Counts :
            GetMessages(topic, count))
          => get_topic_stats(topics') = get_topic_stats(topics)]_vars

\* C33, published topics only: a topic that was published to appears in
\* get_topic_stats with its retained message count.
C33_PublishedTopicHasStats ==
    \A topic \in DOMAIN history :
        /\ topic \in DOMAIN get_topic_stats(topics)
        /\ get_topic_stats(topics)[topic] = Len(topics[topic])

\* C33, subscribed topics only: a topic that was subscribed to appears in
\* get_topic_stats.
C33_SubscribedTopicHasStats ==
    \A topic \in DOMAIN subscribers : topic \in DOMAIN get_topic_stats(topics)

\* ------------------------------------------------ the device's loop
\* the loop of the r-th task of device d has been entered and has not exited
Looping(r, d) == proc[Dev(d, r)].pc = "wait"

\* the step is the exit of that loop: from its sleep, or by an exception in
\* its first cycle
LoopExits(r, d) ==
    /\ proc'[Dev(d, r)].pc = "done"
    /\ \/ Looping(r, d)
       \/ \E f \in failures' \ failures : f.proc = Dev(d, r)

\* C32, the loop's own checks: a loop that wakes with the flag cleared or
\* its duration elapsed emits nothing and exits.
C32_NoCycleAfterStopOrEnd ==
    [][\A r \in Runs, d \in DevIds :
          (\E elapsed \in BOOLEAN, reading \in Readings :
               /\ DevWake(r, d, elapsed, reading)
               /\ elapsed \/ ~devices[d].is_running)
            => history' = history /\ proc'[Dev(d, r)].pc = "done"]_vars

\* C32, the guard: a start on a device whose flag is set returns at once and
\* changes nothing.
C32_StartWhileRunningIsNoOp ==
    [][\A r \in Runs, d \in DevIds :
          ((\E reading \in Readings : DevRun(r, d, reading))
               /\ devices[d].is_running /\ ~proc[Dev(d, r)].cancel)
            => history' = history /\ devices' = devices
                 /\ proc'[Dev(d, r)].pc = "done"]_vars

\* C32, the finally: after the step in which a loop exits, by its own check,
\* by an exception or by cancellation, the device's flag is false.
C32_ExitClearsFlag ==
    [][\A r \in Runs, d \in DevIds :
          LoopExits(r, d) => ~devices'[d].is_running]_vars

\* C32, one loop: no device has two loops at a time.
C32_OneLoopPerDevice ==
    \A d \in DevIds : Cardinality({r \in Runs : Looping(r, d)}) <= 1

\* C32, one loop, not counting a loop whose task has been cancelled and has
\* not yet woken.
C32_OneUncancelledLoopPerDevice ==
    \A d \in DevIds :
        Cardinality({r \in Runs : Looping(r, d) /\ ~proc[Dev(d, r)].cancel}) <= 1

\* C32: a device's loop starts no cycle once its flag is cleared or its
\* duration has elapsed, a start while the flag is set is a no-op, the flag
\* is false whenever a loop has exited, and a device runs at most one loop
\* at a time.
C32_ProducerLoopIsCooperative ==
    /\ C32_NoCycleAfterStopOrEnd
    /\ C32_StartWhileRunningIsNoOp
    /\ C32_ExitClearsFlag
    /\ []C32_OneUncancelledLoopPerDevice

\* ------------------------------------------------ the monitoring task
\* the monitoring task of run r exists and has not ended
MonLive(r) == proc[Proc("mon", r)].pc \in {"new", "wait"}

\* C31, safety: the monitoring task ends only when the running flag has been
\* cleared or its cancellation is pending, and after a step in which its
\* report failed it is still in its loop.
C31_MonitoringEndsOnlyWhenStopped ==
    [][\A r \in Runs :
          /\ (MonLive(r) /\ ~MonLive(r)')
                => (proc[Proc("mon", r)].cancel \/ ~is_running)
          /\ (\E f \in failures' \ failures : f.proc = Proc("mon", r))
                => proc'[Proc("mon", r)].pc = "wait"]_vars

\* C31, progress: once the running flag is cleared, a monitoring task that
\* has not ended does end.
C31_MonitoringEndsOnceStopped ==
    \A r \in Runs : (MonLive(r) /\ ~is_running) ~> ~MonLive(r)

\* C31: a failing status report does not end the monitoring task, which ends
\* only by observing the cleared running flag or by cancellation, and it
\* does end once the flag has been cleared.
C31_MonitoringReportsUntilStopped ==
    /\ C31_MonitoringEndsOnlyWhenStopped
    /\ C31_MonitoringEndsOnceStopped

\* C31 witness: a status report of a run's monitoring task failed and the
\* task has written a report after that; the coordinator is still running.
C31_Witness ==
    \E f \in failures :
        /\ f.proc.fn = "mon"
        /\ reported[f.proc.run] > f.reports
        /\ is_running /\ proc[f.proc].pc = "wait" /\ ~proc[f.proc].cancel

\* ------------------------------------------------ the cleanup of a run
\* run q has been started and its start_simulation call is waiting out its
\* duration
InProgress(q) == starter[q].pc = "sleeping"

\* the step is one of the cleanup of run r's start_simulation call: its
\* finally begins stop_simulation, or that stop_simulation goes on after its
\* gather
CleanupStep(r) ==
    \/ starter[r].pc = "sleeping" /\ starter'[r].pc # "sleeping"
    \/ starter[r].pc = "stopping" /\ starter'[r].pc = "done"

\* the tasks of run q
TasksOf(q) == {p \in ProcIds : p.run = q}

\* C34: a step of the cleanup of run r's start_simulation call, taken while
\* another run is in progress, leaves the running flag, that run's tasks,
\* its devices and the agents as they are.
C34_CleanupStopsOnlyItsOwnRun ==
    [][\A r \in Runs : \A q \in Runs \ {r} :
          (CleanupStep(r) /\ InProgress(q))
            => /\ is_running' = is_running
               /\ \A p \in TasksOf(q) : proc'[p] = proc[p]
               /\ devices' = devices
               /\ agent' = agent]_vars

\* ------------------------------------------------ running with agents
\* C35: in every state after initialize() in which the coordinator's running
\* flag is true, every agent of its registry is active.
C35_RunningImpliesAgentsActive ==
    (initCount >= 1 /\ is_running) => \A o \in Registered : agent[o].is_active

\* C35, first run only: the same while no stop_simulation call has begun.
C35_FirstRunHasActiveAgents ==
    (initCount >= 1 /\ is_running /\ stopped = <<>> /\ stopper = NoCall
        /\ \A r \in Runs : starter[r].pc \in {"none", "sleeping"})
      => \A o \in Registered : agent[o].is_active

====
